---- MODULE Spec2Model ----
(***************************************************************************)
(* EV battery-swap station telemetry: the ingestion Lambda                 *)
(* (lambda_telemetry_handler.py), modelled as a state machine over the     *)
(* DynamoDB table and the S3 bucket it writes.                             *)
(*                                                                         *)
(* JSON values are tagged records, one field name per Python type:         *)
(*   [t |-> "int", i |-> 12]        int                                    *)
(*   [t |-> "float", tenths |-> 325] float 32.5 (one decimal place)        *)
(*   [t |-> "bool", b |-> TRUE]     bool                                   *)
(*   [t |-> "str", s |-> <<..>>]    str, a sequence of characters          *)
(*   [t |-> "null"]                 None                                   *)
(*   [t |-> "Decimal", tenths |-> 325]  decimal.Decimal("32.5")            *)
(* A telemetry record (a Python dict) is a function from the field names   *)
(* it holds to such values.                                                *)
(***************************************************************************)
EXTENDS Integers, Sequences, FiniteSets, TLC

VARIABLES
    table,      \* DynamoDB table: station_id (hash key) -> item
    bucket,     \* S3 bucket: object key -> [Body, Metadata]
    clock,      \* wall clock read by datetime.utcnow()
    last,       \* the latest lambda_handler invocation: its event, the
                \* stores before it, what the stores answered, the store
                \* calls it made, its response, and the invocation before it
    vrec,       \* validate_telemetry: the record under validation
    verdict,    \* validate_telemetry: its return value for vrec
    sim,        \* one BatterySwapStation: its attributes
    simNow,     \* wall clock read by the simulator's datetime.utcnow()
    upd,        \* one call of update(): the station before it, the random
                \* draws it met, and the station after it
    drv,        \* one IoTSimulator inside run(): its attributes, the position
                \* of run(), the wall clock, and what has been done so far
    qry,        \* beside the query handler: the latest invocation of either
                \* handler, and per station the event of its latest upsert
    con         \* invocations in progress at the same time: per ingestion
                \* invocation its position, record and flags; the query
                \* invocation's position, pages read and rows returned

ingestVars == <<table, bucket, clock, last>>
validatorVars == <<vrec, verdict>>
simVars == <<sim, simNow, upd>>
driverVars == <<drv>>
queryVars == <<qry>>
concurrentVars == <<con>>

vars ==
    <<table, bucket, clock, last, vrec, verdict, sim, simNow, upd, drv, qry, con>>

\* ------------------------------------------------------------------ values

IntV(n) == [t |-> "int", i |-> n]
FloatV(n) == [t |-> "float", tenths |-> n]
BoolV(x) == [t |-> "bool", b |-> x]
StrV(chars) == [t |-> "str", s |-> chars]
NullV == [t |-> "null"]
DecimalV(n) == [t |-> "Decimal", tenths |-> n]

\* isinstance(v, str)
IsStr(v) == v.t = "str"

\* isinstance(v, float)
IsFloat(v) == v.t = "float"

\* isinstance(v, (int, float)): bool is a subclass of int in Python.
IsIntOrFloat(v) == v.t \in {"int", "float", "bool"}

\* The value of a Python number in tenths, as comparison operators see it
\* (True is 1, False is 0).
NumTenths(v) ==
    CASE v.t = "int" -> v.i * 10
      [] v.t = "float" -> v.tenths
      [] v.t = "bool" -> IF v.b THEN 10 ELSE 0

\* ------------------------------------------------------------------ strings

Whitespace == {" "}

RECURSIVE LStrip(_)
LStrip(s) == IF s # <<>> /\ Head(s) \in Whitespace THEN LStrip(Tail(s)) ELSE s

RECURSIVE RStrip(_)
RStrip(s) ==
    IF s # <<>> /\ s[Len(s)] \in Whitespace
    THEN RStrip(SubSeq(s, 1, Len(s) - 1))
    ELSE s

\* str.strip()
Strip(s) == RStrip(LStrip(s))

\* str.replace('Z', '+00:00'): every occurrence is replaced.
RECURSIVE ReplaceZ(_)
ReplaceZ(s) ==
    IF s = <<>> THEN <<>>
    ELSE IF Head(s) = "Z"
         THEN <<"+", "0", "0", ":", "0", "0">> \o ReplaceZ(Tail(s))
         ELSE <<Head(s)>> \o ReplaceZ(Tail(s))

DigitChars == <<"0", "1", "2", "3", "4", "5", "6", "7", "8", "9">>

IsDigit(c) == \E k \in 1..10 : DigitChars[k] = c

DigitVal(c) == (CHOOSE k \in 1..10 : DigitChars[k] = c) - 1

RECURSIVE ParseNat(_)
ParseNat(s) ==
    IF s = <<>> THEN 0
    ELSE ParseNat(SubSeq(s, 1, Len(s) - 1)) * 10 + DigitVal(s[Len(s)])

\* Decimal digits of n, at least `width` of them (format spec 0{width}d).
RECURSIVE Digits(_, _)
Digits(n, width) ==
    IF n < 10 /\ width <= 1 THEN <<DigitChars[n + 1]>>
    ELSE Digits(n \div 10, width - 1) \o <<DigitChars[(n % 10) + 1]>>

\* ------------------------------------------------------------------ datetime

IsLeap(y) == (y % 4 = 0 /\ y % 100 # 0) \/ y % 400 = 0

DaysInMonth(y, m) ==
    IF m = 2 THEN (IF IsLeap(y) THEN 29 ELSE 28)
    ELSE IF m \in {4, 6, 9, 11} THEN 30 ELSE 31

\* A parse failure of datetime.fromisoformat (it raises ValueError).
NoDatetime ==
    [ok |-> FALSE, year |-> 0, month |-> 0, day |-> 0, hour |-> 0,
     minute |-> 0, second |-> 0, microsecond |-> 0, aware |-> FALSE,
     offset |-> 0]

\* Index of the first '+' or '-' of a time string, 0 when there is none.
TzPos(tstr) ==
    LET hits == {k \in 1..Len(tstr) : tstr[k] \in {"+", "-"}}
    IN IF hits = {} THEN 0 ELSE CHOOSE k \in hits : \A j \in hits : k <= j

\* HH, HH:MM, HH:MM:SS, HH:MM:SS.fff or HH:MM:SS.ffffff
TimeShapeOk(ts) ==
    /\ Len(ts) \in {2, 5, 8, 12, 15}
    /\ \A k \in 1..Len(ts) :
          IF k \in {3, 6} THEN ts[k] = ":"
          ELSE IF k = 9 THEN ts[k] = "."
          ELSE IsDigit(ts[k])

\* The fraction of a time string in microseconds, 0 when there is none.
Fraction(ts) ==
    IF Len(ts) = 15 THEN ParseNat(SubSeq(ts, 10, 15))
    ELSE IF Len(ts) = 12 THEN ParseNat(SubSeq(ts, 10, 12)) * 1000
    ELSE 0

TimeField(ts, k) ==
    IF Len(ts) >= 3 * k - 1 THEN ParseNat(SubSeq(ts, 3 * k - 2, 3 * k - 1)) ELSE 0

\* datetime.fromisoformat(s) on the extended format
\* YYYY-MM-DD[*HH[:MM[:SS]][(+|-)HH:MM]], * being any single character.
\* with a fraction of 3 or 6 digits after the seconds. Strings with
\* fractions of other lengths, the basic format (no dashes), week dates and
\* a separator followed by nothing are not among the inputs of this model;
\* every input timestamp below was run through CPython.
FromIsoformat(s) ==
    LET n == Len(s)
        dateShape ==
            /\ n >= 10 /\ n # 11
            /\ \A k \in 1..10 : IF k \in {5, 8} THEN s[k] = "-" ELSE IsDigit(s[k])
        y == ParseNat(SubSeq(s, 1, 4))
        mo == ParseNat(SubSeq(s, 6, 7))
        d == ParseNat(SubSeq(s, 9, 10))
        dateOk == dateShape /\ y >= 1 /\ mo \in 1..12 /\ d \in 1..DaysInMonth(y, mo)
        tstr == SubSeq(s, 12, n)
        tz == TzPos(tstr)
        timestr == IF tz > 0 THEN SubSeq(tstr, 1, tz - 1) ELSE tstr
        tzstr == IF tz > 0 THEN SubSeq(tstr, tz + 1, Len(tstr)) ELSE <<>>
        timeOk ==
            /\ TimeShapeOk(timestr)
            /\ TimeField(timestr, 1) < 24
            /\ TimeField(timestr, 2) < 60
            /\ TimeField(timestr, 3) < 60
        tzMinutes == TimeField(tzstr, 1) * 60 + TimeField(tzstr, 2)
        tzOk == tz = 0 \/ (Len(tzstr) = 5 /\ TimeShapeOk(tzstr) /\ tzMinutes < 24 * 60)
    IN IF ~dateOk THEN NoDatetime
       ELSE IF n = 10
            THEN [ok |-> TRUE, year |-> y, month |-> mo, day |-> d, hour |-> 0,
                  minute |-> 0, second |-> 0, microsecond |-> 0,
                  aware |-> FALSE, offset |-> 0]
       ELSE IF ~(timeOk /\ tzOk) THEN NoDatetime
       ELSE [ok |-> TRUE, year |-> y, month |-> mo, day |-> d,
             hour |-> TimeField(timestr, 1), minute |-> TimeField(timestr, 2),
             second |-> TimeField(timestr, 3),
             microsecond |-> Fraction(timestr), aware |-> tz > 0,
             offset |-> IF tz = 0 THEN 0
                        ELSE IF tstr[tz] = "-" THEN 0 - tzMinutes ELSE tzMinutes]

\* datetime.fromisoformat(value.replace('Z', '+00:00')): what it raises, and
\* the datetime when it raises nothing. Only str has a replace method.
ParseTimestamp(value) ==
    IF ~IsStr(value) THEN [raised |-> "AttributeError", dt |-> NoDatetime]
    ELSE LET dt == FromIsoformat(ReplaceZ(value.s))
         IN [raised |-> IF dt.ok THEN "none" ELSE "ValueError", dt |-> dt]

\* datetime.utcnow() read when the wall clock stands `now` seconds after
\* 2024-01-15 14:23:45, `micro` microseconds into the second (now < 2175).
UtcNow(now, micro) ==
    [ok |-> TRUE, year |-> 2024, month |-> 1, day |-> 15, hour |-> 14,
     minute |-> 23 + (45 + now) \div 60, second |-> (45 + now) % 60,
     microsecond |-> micro, aware |-> FALSE, offset |-> 0]

\* isoformat() of a datetime carrying tzinfo=timezone.utc.
isoformat_Aware(dt) ==
    Digits(dt.year, 4) \o <<"-">> \o Digits(dt.month, 2) \o <<"-">>
    \o Digits(dt.day, 2) \o <<"T">> \o Digits(dt.hour, 2) \o <<":">>
    \o Digits(dt.minute, 2) \o <<":">> \o Digits(dt.second, 2)
    \o <<"+", "0", "0", ":", "0", "0">>

\* datetime.isoformat() of a naive datetime: YYYY-MM-DDTHH:MM:SS, followed
\* by .ffffff when the microsecond is not 0.
isoformat(dt) ==
    Digits(dt.year, 4) \o <<"-">> \o Digits(dt.month, 2) \o <<"-">>
    \o Digits(dt.day, 2) \o <<"T">> \o Digits(dt.hour, 2) \o <<":">>
    \o Digits(dt.minute, 2) \o <<":">> \o Digits(dt.second, 2)
    \o (IF dt.microsecond = 0 THEN <<>>
        ELSE <<".">> \o Digits(dt.microsecond, 6))

\* ------------------------------------------------------------------ validator

required_fields == <<"station_id", "battery_available", "timestamp">>

Accept == [raised |-> "none", ok |-> TRUE, error |-> <<>>]
Reject(msg) == [raised |-> "none", ok |-> FALSE, error |-> msg]
Raise(exc) == [raised |-> exc, ok |-> FALSE, error |-> <<>>]

MissingMsg(field) == <<"Missing required field: ", field>>
StationIdMsg == <<"station_id must be a non-empty string">>
BatteryMsg == <<"battery_available must be a non-negative number">>
TimestampMsg == <<"timestamp must be valid ISO-8601 format">>

\* not isinstance(station_id, str) or not station_id.strip()
StationIdInvalid(v) == ~IsStr(v) \/ Strip(v.s) = <<>>

\* not isinstance(battery_available, (int, float)) or battery_available < 0
BatteryInvalid(v) == ~IsIntOrFloat(v) \/ NumTenths(v) < 0

\* The try/except around the timestamp parse: ValueError and AttributeError
\* are caught, anything else propagates.
TimestampCheck(v) ==
    LET p == ParseTimestamp(v)
    IN IF p.raised \in {"ValueError", "AttributeError"} THEN Reject(TimestampMsg)
       ELSE IF p.raised # "none" THEN Raise(p.raised)
       ELSE Accept

\* validate_telemetry testing battery_available before station_id.
validate_telemetry_BatteryFirst(data) ==
    LET missing == {k \in 1..Len(required_fields) : required_fields[k] \notin DOMAIN data}
    IN IF missing # {}
       THEN Reject(MissingMsg(required_fields[CHOOSE k \in missing : \A j \in missing : k <= j]))
       ELSE IF BatteryInvalid(data.battery_available) THEN Reject(BatteryMsg)
       ELSE IF StationIdInvalid(data.station_id) THEN Reject(StationIdMsg)
       ELSE TimestampCheck(data.timestamp)

validate_telemetry(data) ==
    LET missing == {k \in 1..Len(required_fields) : required_fields[k] \notin DOMAIN data}
    IN IF missing # {}
       THEN Reject(MissingMsg(required_fields[CHOOSE k \in missing : \A j \in missing : k <= j]))
       ELSE IF StationIdInvalid(data.station_id) THEN Reject(StationIdMsg)
       ELSE IF BatteryInvalid(data.battery_available) THEN Reject(BatteryMsg)
       ELSE TimestampCheck(data.timestamp)

\* ------------------------------------------------------------------ stores

\* The DynamoDB type serializer as put_item applies it: a Python float is
\* refused (TypeError), everything else of this model's values is stored.
Serializable(item) == \A k \in DOMAIN item : ~IsFloat(item[k])

\* put_item as an update: attributes the new item lacks survive.
PutItem_Merge(tbl, item) ==
    LET key == item.station_id.s
        old == IF key \in DOMAIN tbl THEN tbl[key] ELSE item
    IN [k \in DOMAIN tbl \cup {key} |->
           IF k = key
           THEN [f \in DOMAIN old \cup DOMAIN item |->
                    IF f \in DOMAIN item THEN item[f] ELSE old[f]]
           ELSE tbl[k]]

\* put_item under a condition on the record timestamp: an item already
\* there with another timestamp is kept.
PutItem_KeepsOther(tbl, item) ==
    LET key == item.station_id.s
    IN IF key \in DOMAIN tbl /\ tbl[key].timestamp # item.timestamp
       THEN tbl
       ELSE [k \in DOMAIN tbl \cup {key} |-> IF k = key THEN item ELSE tbl[k]]

\* put_item writing an existing item attribute by attribute and stopping
\* after the timestamp.
PutItem_Torn(tbl, item) ==
    LET key == item.station_id.s
    IN [k \in DOMAIN tbl \cup {key} |->
           IF k # key THEN tbl[k]
           ELSE IF key \in DOMAIN tbl
           THEN [tbl[key] EXCEPT !.timestamp = item.timestamp]
           ELSE item]

\* table.put_item(Item=item): creates or wholly replaces the item whose hash
\* key (station_id) equals the item's.
PutItem(tbl, item) ==
    [k \in DOMAIN tbl \cup {item.station_id.s} |->
        IF k = item.station_id.s THEN item ELSE tbl[k]]

\* s3_client.put_object(Key=key, ...): creates or replaces the object at key.
PutObject(bkt, key, obj) ==
    [k \in DOMAIN bkt \cup {key} |-> IF k = key THEN obj ELSE bkt[k]]

\* json.dumps(data, indent=2, default=str): the JSON text, as the document it
\* denotes. JSON keeps 12 and 12.0 apart and has no Decimal: default=str
\* turns one into a JSON string.
JsonValue(v) ==
    CASE v.t = "int" -> [json |-> "number", int |-> v.i]
      [] v.t = "float" -> [json |-> "number", tenths |-> v.tenths]
      [] v.t = "bool" -> [json |-> IF v.b THEN "true" ELSE "false"]
      [] v.t = "null" -> [json |-> "null"]
      [] v.t = "str" -> [json |-> "string", s |-> v.s]
      [] v.t = "Decimal" -> [json |-> "string", decimal |-> v.tenths]
      [] v.t = "time" -> [json |-> "string", time |-> v.at]

JsonDumps(data) == [k \in DOMAIN data |-> JsonValue(data[k])]

\* datetime.utcnow().isoformat() at wall-clock time `now`
IsoNow(now) == [t |-> "time", at |-> now]

\* ------------------------------------------------------------------ pipeline

convert_floats_to_decimal(data) ==
    [k \in DOMAIN data |->
        IF IsFloat(data[k]) THEN DecimalV(data[k].tenths) ELSE data[k]]

\* data_to_store of store_in_dynamodb: a converted copy, stamped.
DataToStore(data, now) ==
    LET converted == convert_floats_to_decimal(data)
    IN [k \in DOMAIN converted \cup {"lambda_processed_at"} |->
           IF k = "lambda_processed_at" THEN IsoNow(now) ELSE converted[k]]

\* store_in_dynamodb without its try/except: a refused write leaves the
\* function as an exception.
store_in_dynamodb_Propagates(data, tbl, now, up) ==
    LET item == DataToStore(data, now)
        done == up /\ Serializable(item)
    IN [table |-> IF done THEN PutItem(tbl, item) ELSE tbl,
        data |-> data,
        ret |-> done,
        calls |-> <<[op |-> "put_item", key |-> item.station_id.s, ok |-> done]>>,
        raised |-> IF done THEN "none" ELSE "ClientError"]

\* store_in_dynamodb converting and stamping the caller's dict itself.
store_in_dynamodb_InPlace(data, tbl, now, up) ==
    LET item == DataToStore(data, now)
        done == up /\ Serializable(item)
    IN [table |-> IF done THEN PutItem(tbl, item) ELSE tbl,
        data |-> item,
        ret |-> done,
        calls |-> <<[op |-> "put_item", key |-> item.station_id.s, ok |-> done]>>,
        raised |-> "none"]

\* store_in_dynamodb returning True from its except branch too.
store_in_dynamodb_AlwaysTrue(data, tbl, now, up) ==
    LET item == DataToStore(data, now)
        done == up /\ Serializable(item)
    IN [table |-> IF done THEN PutItem(tbl, item) ELSE tbl,
        data |-> data,
        ret |-> TRUE,
        calls |-> <<[op |-> "put_item", key |-> item.station_id.s, ok |-> done]>>,
        raised |-> "none"]

\* store_in_dynamodb(data): `up` is whether the table accepts the write.
\* Yields the table afterwards, the caller's dict afterwards (the function
\* works on a copy), the return value, the store calls made, and the
\* exception that leaves the function (none: every Exception is caught).
store_in_dynamodb(data, tbl, now, up) ==
    LET item == DataToStore(data, now)
        done == up /\ Serializable(item)
    IN [table |-> IF done THEN PutItem(tbl, item) ELSE tbl,
        data |-> data,
        ret |-> done,
        calls |-> <<[op |-> "put_item", key |-> item.station_id.s, ok |-> done]>>,
        raised |-> "none"]

\* The object key of archive_to_s3, as the sequence of its pieces.
S3Key(station, dt, hex) ==
    <<"telemetry/", "year=">> \o Digits(dt.year, 1)
    \o <<"/", "month=">> \o Digits(dt.month, 2)
    \o <<"/", "day=">> \o Digits(dt.day, 2)
    \o <<"/">> \o station \o <<"_">>
    \o Digits(dt.year, 1) \o Digits(dt.month, 2) \o Digits(dt.day, 2)
    \o <<"_">>
    \o Digits(dt.hour, 2) \o Digits(dt.minute, 2) \o Digits(dt.second, 2)
    \o <<"_">> \o hex \o <<".json">>

\* archive_to_s3(data): `up` is whether the bucket accepts the write, `hex`
\* is uuid.uuid4().hex[:8].
archive_to_s3(data, bkt, now, up, hex) ==
    LET p == ParseTimestamp(data.timestamp)
        key == S3Key(data.station_id.s, p.dt, hex)
        obj == [Body |-> JsonDumps(data),
                ContentType |-> "application/json",
                Metadata |-> [station_id |-> data.station_id,
                              ingestion_time |-> IsoNow(now)]]
    IN IF p.raised # "none"
       THEN [bucket |-> bkt, ret |-> FALSE, calls |-> <<>>, raised |-> "none"]
       ELSE [bucket |-> IF up THEN PutObject(bkt, key, obj) ELSE bkt,
             ret |-> up,
             calls |-> <<[op |-> "put_object", key |-> key, ok |-> up]>>,
             raised |-> "none"]

\* The catch-all of lambda_handler.
InternalError(exc) ==
    [statusCode |-> 500,
     body |-> [error |-> "Internal server error", message |-> exc]]

\* Respond with `or` for `and` in the first test of STEP 4.
Respond_AnySuccess(station_id, dynamodb_success, s3_success, now) ==
    LET status_code == IF dynamodb_success \/ s3_success THEN 200 ELSE 500
    IN [statusCode |-> status_code,
        body |-> [message |-> "Telemetry processed successfully",
                  station_id |-> station_id,
                  dynamodb_success |-> dynamodb_success,
                  s3_success |-> s3_success,
                  timestamp |-> IsoNow(now)]]

\* STEP 4 and STEP 5 of lambda_handler.
Respond(station_id, dynamodb_success, s3_success, now) ==
    LET status_code ==
            IF dynamodb_success /\ s3_success THEN 200
            ELSE IF dynamodb_success \/ s3_success THEN 207
            ELSE 500
        message ==
            IF dynamodb_success /\ s3_success THEN "Telemetry processed successfully"
            ELSE IF dynamodb_success \/ s3_success THEN "Telemetry partially processed"
            ELSE "Failed to process telemetry"
    IN [statusCode |-> status_code,
        body |-> [message |-> message,
                  station_id |-> station_id,
                  dynamodb_success |-> dynamodb_success,
                  s3_success |-> s3_success,
                  timestamp |-> IsoNow(now)]]

\* lambda_handler going on to the stores whatever the validator said.
lambda_handler_IgnoresVerdict(event, tbl, bkt, now, dynUp, s3Up, hex) ==
    LET d == store_in_dynamodb(event, tbl, now, dynUp)
        a == archive_to_s3(d.data, bkt, now, s3Up, hex)
    IN [table |-> d.table, bucket |-> a.bucket, calls |-> d.calls \o a.calls,
        response |-> Respond(event.station_id, d.ret, a.ret, now)]

\* lambda_handler(event, context) from its try block on: the stores
\* afterwards, the response, and the store calls made, in order.
lambda_handler(event, tbl, bkt, now, dynUp, s3Up, hex) ==
    LET v == validate_telemetry(event)
        d == store_in_dynamodb(event, tbl, now, dynUp)
        a == archive_to_s3(d.data, bkt, now, s3Up, hex)
    IN IF v.raised # "none"
       THEN [table |-> tbl, bucket |-> bkt, calls |-> <<>>,
             response |-> InternalError(v.raised)]
       ELSE IF ~v.ok
       THEN [table |-> tbl, bucket |-> bkt, calls |-> <<>>,
             response |-> [statusCode |-> 400,
                           body |-> [error |-> "Validation failed",
                                     message |-> v.error]]]
       ELSE IF d.raised # "none"
       THEN [table |-> d.table, bucket |-> bkt, calls |-> d.calls,
             response |-> InternalError(d.raised)]
       ELSE IF a.raised # "none"
       THEN [table |-> d.table, bucket |-> a.bucket, calls |-> d.calls \o a.calls,
             response |-> InternalError(a.raised)]
       ELSE [table |-> d.table, bucket |-> a.bucket, calls |-> d.calls \o a.calls,
             response |-> Respond(event.station_id, d.ret, a.ret, now)]

\* ------------------------------------------------------------------ inputs

\* Marks a field the record does not hold (no JSON value).
Absent == [t |-> "absent"]

\* The dict holding the given fields, a field given as Absent left out.
MkRecord(sid, bat, ts, temp) ==
    LET all == [station_id |-> sid, battery_available |-> bat,
                timestamp |-> ts, temperature |-> temp]
    IN [k \in {f \in DOMAIN all : all[f] # Absent} |-> all[k]]

EmptyMap == [k \in {} |-> NullV]

S1 == <<"s", "1">>
S2 == <<"s", "2">>
Blank == <<" ", " ">>

\* "2024-01-15T14:23:45Z"
TsZ == StrV(<<"2", "0", "2", "4", "-", "0", "1", "-", "1", "5", "T", "1", "4", ":", "2", "3", ":", "4", "5", "Z">>)
\* "2024-01-15T01:00:00+02:00": 2024-01-14 23:00:00 UTC
TsPlus == StrV(<<"2", "0", "2", "4", "-", "0", "1", "-", "1", "5", "T", "0", "1", ":", "0", "0", ":", "0", "0", "+", "0", "2", ":", "0", "0">>)
\* "2024-01-31T23:30:00-01:00": 2024-02-01 00:30:00 UTC
TsMinus == StrV(<<"2", "0", "2", "4", "-", "0", "1", "-", "3", "1", "T", "2", "3", ":", "3", "0", ":", "0", "0", "-", "0", "1", ":", "0", "0">>)
\* "2024-01-15T14:23:45": no UTC designator
TsNaive == StrV(<<"2", "0", "2", "4", "-", "0", "1", "-", "1", "5", "T", "1", "4", ":", "2", "3", ":", "4", "5">>)
\* "2024-01-15x14:23:45Z": 'x' where ISO-8601 wants 'T'
TsBadSep == StrV(<<"2", "0", "2", "4", "-", "0", "1", "-", "1", "5", "x", "1", "4", ":", "2", "3", ":", "4", "5", "Z">>)
\* "2024-13-15T14:23:45Z": month 13
TsBadMonth == StrV(<<"2", "0", "2", "4", "-", "1", "3", "-", "1", "5", "T", "1", "4", ":", "2", "3", ":", "4", "5", "Z">>)
\* "2024-01-15T14:23:45z": lower-case designator
TsLowerZ == StrV(<<"2", "0", "2", "4", "-", "0", "1", "-", "1", "5", "T", "1", "4", ":", "2", "3", ":", "4", "5", "z">>)
\* "now"
TsWord == StrV(<<"n", "o", "w">>)

\* What validate_telemetry is exercised on.
ValidatorStationIds == {Absent, StrV(S1), StrV(Blank), StrV(<<>>), IntV(7), NullV}
ValidatorBatteries ==
    {Absent, IntV(12), IntV(0), IntV(-1), FloatV(125), FloatV(-5),
     BoolV(TRUE), BoolV(FALSE), StrV(<<"1", "2">>), NullV}
ValidatorTimestamps ==
    {Absent, TsZ, TsPlus, TsMinus, TsNaive, TsBadSep, TsBadMonth, TsLowerZ,
     TsWord, IntV(0), NullV}
ValidatorInputs ==
    {MkRecord(sid, bat, ts, Absent) :
        sid \in ValidatorStationIds, bat \in ValidatorBatteries,
        ts \in ValidatorTimestamps}

\* What the ingestion handler is invoked on.
IngestEvents ==
    {MkRecord(StrV(sid), e[1], e[2], e[3]) :
        sid \in {S1, S2},
        e \in {<<IntV(12), TsZ, FloatV(325)>>,
               <<IntV(12), TsPlus, Absent>>,
               <<IntV(-1), TsZ, Absent>>}}

\* Number of handler invocations explored.
MaxIngests == 2

\* Number of distinct values uuid.uuid4().hex[:8] takes.
NumHex == 2

Hex8 == {<<"0", "0", "0", "0", "0", "0", "0", DigitChars[k]>> : k \in 1..NumHex}

\* ------------------------------------------------------------------ simulator

\* Temperature and humidity are floats, held here in hundredths.
TempMin == 1500
TempMax == 3500
HumMin == 2000
HumMax == 8000

Min2(a, b) == IF a < b THEN a ELSE b
Max2(a, b) == IF a > b THEN a ELSE b

\* datetime.utcnow().isoformat() + "Z" at wall-clock time `now`
IsoNowZ(now) == [t |-> "time", at |-> now, z |-> TRUE]

\* BatterySwapStation.__init__: the random draws are the arguments.
NewStation(station_id, available, charging, temperature, humidity, swaps, now) ==
    [station_id |-> station_id,
     battery_available |-> available,
     battery_charging |-> charging,
     temperature |-> temperature,
     humidity |-> humidity,
     status |-> "operational",
     total_swaps_today |-> swaps,
     last_swap_time |-> IsoNowZ(now)]

\* The random draws of one update(): the outcomes of the four
\* random.random() < p tests and the two random.uniform() values.
\*   charge      random.random() < 0.2   in simulate_battery_charging
\*   swap        random.random() < 0.15  in simulate_battery_swap
\*   dTemp       random.uniform(-0.5, 0.5), in hundredths
\*   dHum        random.uniform(-2.0, 2.0), in hundredths
\*   toMaint     random.random() < 0.01  in simulate_status_change
\*   toOper      random.random() < 0.10  in simulate_status_change
Draws(tempSteps, humSteps) ==
    [charge : BOOLEAN, swap : BOOLEAN, dTemp : tempSteps, dHum : humSteps,
     toMaint : BOOLEAN, toOper : BOOLEAN]

\* simulate_battery_charging making a battery available without taking it
\* from the charging ones.
simulate_battery_charging_NoDecrement(st, d) ==
    IF st.battery_charging > 0 /\ d.charge
    THEN [st EXCEPT !.battery_available = @ + 1]
    ELSE st

simulate_battery_charging(st, d) ==
    IF st.battery_charging > 0 /\ d.charge
    THEN [st EXCEPT !.battery_charging = @ - 1, !.battery_available = @ + 1]
    ELSE st

\* simulate_battery_swap leaving last_swap_time as it was.
simulate_battery_swap_NoTimestamp(st, d, now) ==
    IF st.battery_available > 0 /\ d.swap
    THEN [st EXCEPT !.battery_available = @ - 1,
                    !.battery_charging = @ + 1,
                    !.total_swaps_today = @ + 1]
    ELSE st

\* simulate_battery_swap refusing customers while the station is in
\* maintenance.
simulate_battery_swap_OperationalOnly(st, d, now) ==
    IF st.status = "operational" /\ st.battery_available > 0 /\ d.swap
    THEN [st EXCEPT !.battery_available = @ - 1,
                    !.battery_charging = @ + 1,
                    !.total_swaps_today = @ + 1,
                    !.last_swap_time = IsoNowZ(now)]
    ELSE st

simulate_battery_swap(st, d, now) ==
    IF st.battery_available > 0 /\ d.swap
    THEN [st EXCEPT !.battery_available = @ - 1,
                    !.battery_charging = @ + 1,
                    !.total_swaps_today = @ + 1,
                    !.last_swap_time = IsoNowZ(now)]
    ELSE st

\* simulate_temperature_change without the line-199 clamp.
simulate_temperature_change_NoClamp(st, d) ==
    [st EXCEPT !.temperature = @ + d.dTemp]

simulate_temperature_change(st, d) ==
    [st EXCEPT !.temperature = Max2(TempMin, Min2(TempMax, @ + d.dTemp))]

simulate_humidity_change(st, d) ==
    [st EXCEPT !.humidity = Max2(HumMin, Min2(HumMax, @ + d.dHum))]

\* simulate_status_change with a second `if` in place of the `elif`.
simulate_status_change_TwoIfs(st, d) ==
    LET entered == IF st.status = "operational" /\ d.toMaint
                   THEN [st EXCEPT !.status = "maintenance"] ELSE st
    IN IF entered.status = "maintenance" /\ d.toOper
       THEN [entered EXCEPT !.status = "operational"]
       ELSE entered

\* simulate_status_change without its elif branch.
simulate_status_change_NoExit(st, d) ==
    IF st.status = "operational" /\ d.toMaint
    THEN [st EXCEPT !.status = "maintenance"]
    ELSE st

simulate_status_change(st, d) ==
    IF st.status = "operational" /\ d.toMaint
    THEN [st EXCEPT !.status = "maintenance"]
    ELSE IF st.status = "maintenance" /\ d.toOper
    THEN [st EXCEPT !.status = "operational"]
    ELSE st

\* update() with the swap rule run before the charging rule.
update_SwapFirst(st, d, now) ==
    simulate_status_change(
        simulate_humidity_change(
            simulate_temperature_change(
                simulate_battery_charging(
                    simulate_battery_swap(st, d, now), d), d), d), d)

\* BatterySwapStation.update(): the five rules in their fixed order.
update(st, d, now) ==
    simulate_status_change(
        simulate_humidity_change(
            simulate_temperature_change(
                simulate_battery_swap(
                    simulate_battery_charging(st, d), d, now), d), d), d)

\* Number of update() calls explored for one station.
MaxTicks == 11

\* The draws explored for random.uniform(-0.5, 0.5) and
\* random.uniform(-2.0, 2.0): the two ends of each range.
TempSteps == {-50, 50}
HumSteps == {-200, 200}

\* The draws explored for one update(): every outcome of the four tests,
\* with temperature and humidity both stepping down or both stepping up.
SimDraws == {d \in Draws(TempSteps, HumSteps) : (d.dTemp > 0) = (d.dHum > 0)}

\* The constructions explored: the low ends and the high ends of
\* randint(8, 15), randint(2, 6), uniform(20.0, 30.0), uniform(30.0, 60.0)
\* and randint(0, 50).
InitialStations ==
    {NewStation(S1, 8, 2, 2000, 3000, 0, 0),
     NewStation(S1, 15, 6, 3000, 6000, 50, 0)}

NoStation == [station_id |-> <<>>]

\* A driver that keeps ticking is followed up to the two values that only
\* grow: clock readings from ClockHorizon on are not told apart, nor are
\* swap counts from MaxSwaps on.
ClockHorizon == 2
MaxSwaps == 52

Saturated(st) == [st EXCEPT !.total_swaps_today = Min2(@, MaxSwaps)]

\* The draws explored for a driver that keeps ticking: every outcome of the
\* four tests, random.uniform(-0.5, 0.5) and random.uniform(-2.0, 2.0)
\* at the middle of their ranges.
FairDraws == Draws({0}, {0})

\* The stations one call of update() is explored on: the constructions, and
\* stations some ticks old: a battery count at 0, temperature and humidity
\* on a clamp and between, either status.
UpdateStations ==
    InitialStations \cup
    {[NewStation(S1, n[1], n[2], t, h, 8, 0) EXCEPT !.status = st] :
        n \in {<<8, 2>>, <<0, 10>>, <<10, 0>>, <<1, 9>>, <<15, 6>>},
        t \in {TempMin, 2000, TempMax},
        h \in {HumMin, 3000},
        st \in {"operational", "maintenance"}}

NoUpdate == [called |-> FALSE]

\* ------------------------------------------------------------------ driver

\* round(x, 1) of a float held in hundredths: the float in tenths, halves
\* going to the even neighbour.
Round1(h) ==
    LET q == h \div 10
        r == h % 10
    IN  IF r < 5 THEN q
        ELSE IF r > 5 THEN q + 1
        ELSE IF q % 2 = 0 THEN q ELSE q + 1

StatusChars(status) ==
    IF status = "operational"
    THEN <<"o", "p", "e", "r", "a", "t", "i", "o", "n", "a", "l">>
    ELSE <<"m", "a", "i", "n", "t", "e", "n", "a", "n", "c", "e">>

\* BatterySwapStation.get_telemetry().to_dict()
get_telemetry(st) ==
    [station_id |-> StrV(st.station_id),
     battery_available |-> IntV(st.battery_available),
     battery_charging |-> IntV(st.battery_charging),
     temperature |-> FloatV(Round1(st.temperature)),
     humidity |-> FloatV(Round1(st.humidity)),
     status |-> StrV(StatusChars(st.status)),
     total_swaps_today |-> IntV(st.total_swaps_today),
     last_swap_time |-> st.last_swap_time]

\* json.dumps(telemetry_dict), as the JSON document it denotes.
PayloadJson(data) ==
    [k \in DOMAIN data |->
        IF data[k].t = "time"
        THEN [json |-> "string", time |-> data[k].at, z |-> data[k].z]
        ELSE JsonValue(data[k])]

TOPIC_PREFIX == <<"e", "v", "/", "s", "t", "a", "t", "i", "o", "n">>

\* f"{TOPIC_PREFIX}/{station.station_id}/telemetry"
Topic(station_id) ==
    TOPIC_PREFIX \o <<"/">> \o station_id
        \o <<"/", "t", "e", "l", "e", "m", "e", "t", "r", "y">>

\* f"station-{i:02d}"
StationId(i) == <<"s", "t", "a", "t", "i", "o", "n", "-">> \o Digits(i, 2)

NoPublish == [topic |-> <<>>]

\* IoTSimulator.__init__, then run() entered.  Beside the attributes
\* (stations, mqtt_connection) the record holds where run() is (pc, idx), the
\* wall clock, and the history the claims speak of: for-loops started
\* (ticks), update() calls and publish attempts per station, the stations
\* whose publish has failed, the latest publish call, whether and where a
\* KeyboardInterrupt arrived, and the disconnect() calls made.
IoTSimulator(num_stations) ==
    [stations |-> [i \in 1..num_stations |->
                      NewStation(StationId(i), 8, 2, 2000, 3000, 0, 0)],
     mqtt_connection |-> "None",
     pc |-> "connect",
     idx |-> 0,
     now |-> 0,
     ticks |-> 0,
     updates |-> [i \in 1..num_stations |-> 0],
     attempts |-> [i \in 1..num_stations |-> 0],
     failed |-> {},
     sent |-> NoPublish,
     cancelled |-> FALSE,
     cancelledAt |-> [pc |-> "", idx |-> 0, ticks |-> 0, connected |-> FALSE],
     disconnects |-> 0]

\* What connect_to_iot() can meet: the builder raising, connect() raising,
\* or the connection established.
ConnectOutcomes == {"builder_fails", "connect_fails", "ok"}

\* connect_to_iot(): logs and re-raises.
connect_to_iot(self, outcome) ==
    CASE outcome = "builder_fails" -> [self |-> self, raised |-> TRUE]
      [] outcome = "connect_fails" ->
            [self |-> [self EXCEPT !.mqtt_connection = "built"], raised |-> TRUE]
      [] outcome = "ok" ->
            [self |-> [self EXCEPT !.mqtt_connection = "connected"],
             raised |-> FALSE]

\* The publish call of publish_telemetry for station i, acknowledged or not.
PublishCall(self, i, acked) ==
    [topic |-> Topic(self.stations[i].station_id),
     payload |-> PayloadJson(
         [k \in DOMAIN get_telemetry(self.stations[i]) \cup {"timestamp"} |->
             IF k = "timestamp" THEN IsoNowZ(self.now)
             ELSE get_telemetry(self.stations[i])[k]]),
     acked |-> acked]

\* publish_telemetry with the failure re-raised instead of logged.
publish_telemetry_Propagates(self, i, acked) ==
    [self |-> [self EXCEPT !.attempts[i] = @ + 1,
                           !.failed = IF acked THEN @ ELSE @ \cup {i},
                           !.sent = PublishCall(self, i, acked)],
     raised |-> ~acked]

\* publish_telemetry publishing the same payload once more when the first
\* publish fails.
publish_telemetry_Retries(self, i, acked) ==
    [self |-> [self EXCEPT !.attempts[i] = IF acked THEN @ + 1 ELSE @ + 2,
                           !.failed = IF acked THEN @ ELSE @ \cup {i},
                           !.sent = PublishCall(self, i, acked)],
     raised |-> FALSE]

\* publish_telemetry(station): one publish, waited for; any Exception is
\* logged and swallowed.
publish_telemetry(self, i, acked) ==
    [self |-> [self EXCEPT !.attempts[i] = @ + 1,
                           !.failed = IF acked THEN @ ELSE @ \cup {i},
                           !.sent = PublishCall(self, i, acked)],
     raised |-> FALSE]

\* The finally block of run() without its disconnect.
run_finally_NoDisconnect(self) == [self EXCEPT !.pc = "returned"]

\* The finally block of run(): disconnect when a connection object exists.
run_finally(self) ==
    IF self.mqtt_connection # "None"
    THEN [self EXCEPT !.mqtt_connection = "disconnected",
                      !.disconnects = @ + 1,
                      !.pc = "returned"]
    ELSE [self EXCEPT !.pc = "returned"]

\* Number of stations of the driver (--num-stations).
NumStations == 2

\* Number of ticks of the driver explored.
MaxDriverTicks == 2

\* The draws explored for the update() calls of the driver: a swap or none.
DriverDraws ==
    {d \in SimDraws : ~d.charge /\ ~d.toMaint /\ ~d.toOper /\ d.dTemp > 0}

NoDriver == [pc |-> "none"]

\* ------------------------------------------------------------------ query service

\* What boto3 hands back for a stored item: every DynamoDB number, whether
\* written from an int or from a Decimal, arrives as a Decimal.
Deserialize(item) ==
    [k \in DOMAIN item |->
        IF item[k].t = "int" THEN DecimalV(item[k].i * 10) ELSE item[k]]

\* decimal_to_float turning every Decimal into a float.
decimal_to_float_AlwaysFloat(obj) ==
    [k \in DOMAIN obj |->
        IF obj[k].t = "Decimal" THEN FloatV(obj[k].tenths) ELSE obj[k]]

\* decimal_to_float(obj) on a dict of scalars: int(obj) if obj % 1 == 0 else
\* float(obj) for a Decimal, anything else as it is.
decimal_to_float(obj) ==
    [k \in DOMAIN obj |->
        IF obj[k].t = "Decimal"
        THEN IF obj[k].tenths % 10 = 0
             THEN IntV(obj[k].tenths \div 10)
             ELSE FloatV(obj[k].tenths)
        ELSE obj[k]]

default_headers ==
    [ContentType |-> "application/json",
     AccessControlAllowOrigin |-> "*",
     AccessControlAllowMethods |-> "GET, OPTIONS",
     AccessControlAllowHeaders |-> "Content-Type"]

\* json.dumps(body, default=str) of a response body, as the JSON document
\* it denotes: station rows go through JsonDumps, texts stay texts.
DumpBody(body) ==
    IF "stations" \in DOMAIN body
    THEN [count |-> body.count,
          stations |-> [i \in DOMAIN body.stations |-> JsonDumps(body.stations[i])]]
    ELSE IF "station" \in DOMAIN body
    THEN [station |-> JsonDumps(body.station)]
    ELSE body

create_response(status_code, body) ==
    [statusCode |-> status_code, headers |-> default_headers,
     body |-> DumpBody(body)]

\* The order in which a scan walks the table: some fixed order of its keys.
KeysSeq(tbl) ==
    CHOOSE seq \in [1..Cardinality(DOMAIN tbl) -> DOMAIN tbl] :
        \A i, j \in DOMAIN seq : i # j => seq[i] # seq[j]

\* How far into KeysSeq(tbl) an ExclusiveStartKey points (0: no start key).
KeyPosition(tbl, start) ==
    IF start = NullV THEN 0
    ELSE CHOOSE i \in 1..Cardinality(DOMAIN tbl) :
            KeysSeq(tbl)[i] = start.station_id

\* table.scan(ExclusiveStartKey=start) when a page holds at most `limit`
\* items: the page, and LastEvaluatedKey when the page came back full.
Scan(tbl, start, limit) ==
    LET keys == KeysSeq(tbl)
        from == KeyPosition(tbl, start)
        upto == Min2(from + limit, Len(keys))
        Items == [i \in 1..(upto - from) |-> Deserialize(tbl[keys[from + i]])]
    IN IF upto - from = limit
       THEN [Items |-> Items, LastEvaluatedKey |-> [station_id |-> keys[upto]]]
       ELSE [Items |-> Items]

ScanCall == [op |-> "scan"]
GetItemCall(station_id) == [op |-> "get_item", key |-> station_id]

\* The while loop of get_all_stations; the store raises at its failAt-th
\* call (0: never).
RECURSIVE ScanLoop(_, _, _, _, _, _)
ScanLoop(tbl, response, items, limit, failAt, calls) ==
    IF "LastEvaluatedKey" \notin DOMAIN response
    THEN [raised |-> FALSE,
          ret |-> [i \in DOMAIN items |-> decimal_to_float(items[i])],
          calls |-> calls]
    ELSE IF failAt = Len(calls) + 1
    THEN [raised |-> TRUE, ret |-> <<>>, calls |-> Append(calls, ScanCall)]
    ELSE LET next == Scan(tbl, response.LastEvaluatedKey, limit)
         IN ScanLoop(tbl, next, items \o next.Items, limit, failAt,
                     Append(calls, ScanCall))

\* get_all_stations returning the first page only.
get_all_stations_FirstPage(tbl, limit, failAt) ==
    IF failAt = 1
    THEN [raised |-> TRUE, ret |-> <<>>, calls |-> <<ScanCall>>]
    ELSE LET items == Scan(tbl, NullV, limit).Items
         IN [raised |-> FALSE,
             ret |-> [i \in DOMAIN items |-> decimal_to_float(items[i])],
             calls |-> <<ScanCall>>]

\* get_all_stations(): logs and re-raises a store failure.
get_all_stations(tbl, limit, failAt) ==
    IF failAt = 1
    THEN [raised |-> TRUE, ret |-> <<>>, calls |-> <<ScanCall>>]
    ELSE LET response == Scan(tbl, NullV, limit)
         IN ScanLoop(tbl, response, response.Items, limit, failAt, <<ScanCall>>)

\* get_station_by_id answering None for a store failure too.
get_station_by_id_NoneOnError(station_id, tbl, failAt) ==
    IF failAt = 1 \/ station_id \notin DOMAIN tbl
    THEN [raised |-> FALSE, ret |-> NullV, calls |-> <<GetItemCall(station_id)>>]
    ELSE [raised |-> FALSE,
          ret |-> decimal_to_float(Deserialize(tbl[station_id])),
          calls |-> <<GetItemCall(station_id)>>]

\* get_station_by_id(station_id): None when the response has no Item; logs
\* and re-raises a store failure.
get_station_by_id(station_id, tbl, failAt) ==
    IF failAt = 1
    THEN [raised |-> TRUE, ret |-> NullV, calls |-> <<GetItemCall(station_id)>>]
    ELSE IF station_id \notin DOMAIN tbl
    THEN [raised |-> FALSE, ret |-> NullV, calls |-> <<GetItemCall(station_id)>>]
    ELSE [raised |-> FALSE,
          ret |-> decimal_to_float(Deserialize(tbl[station_id])),
          calls |-> <<GetItemCall(station_id)>>]

handle_get_stations(event, tbl, limit, failAt) ==
    LET r == get_all_stations(tbl, limit, failAt)
    IN IF r.raised
       THEN [response |-> create_response(500,
                 [error |-> "Internal server error",
                  message |-> "Failed to retrieve stations"]),
             calls |-> r.calls]
       ELSE [response |-> create_response(200,
                 [count |-> Len(r.ret), stations |-> r.ret]),
             calls |-> r.calls]

\* A Python dict as a value.
DictV(d) == [t |-> "dict", d |-> d]

\* not station_id
Falsy(v) == v = NullV \/ (IsStr(v) /\ v.s = <<>>)

handle_get_station_by_id(event, tbl, failAt) ==
    LET path_params == IF "pathParameters" \in DOMAIN event
                       THEN event.pathParameters ELSE DictV(EmptyMap)
        \* path_params.get('station_id'), None having no attribute get
        attributeError == path_params = NullV
        station_id == IF "station_id" \in DOMAIN path_params.d
                      THEN path_params.d.station_id ELSE NullV
        r == get_station_by_id(station_id.s, tbl, failAt)
    IN IF attributeError
       THEN [response |-> create_response(500,
                 [error |-> "Internal server error",
                  message |-> "Failed to retrieve station"]),
             calls |-> <<>>]
       ELSE IF Falsy(station_id)
       THEN [response |-> create_response(400,
                 [error |-> "Bad request",
                  message |-> "station_id is required"]),
             calls |-> <<>>]
       ELSE IF r.raised
       THEN [response |-> create_response(500,
                 [error |-> "Internal server error",
                  message |-> "Failed to retrieve station"]),
             calls |-> r.calls]
       ELSE IF r.ret = NullV
       THEN [response |-> create_response(404,
                 [error |-> "Not found",
                  message |-> <<"Station ", station_id.s, " not found">>]),
             calls |-> r.calls]
       ELSE [response |-> create_response(200, [station |-> r.ret]),
             calls |-> r.calls]

handle_options(event) ==
    [response |-> create_response(200, [message |-> "CORS preflight response"]),
     calls |-> <<>>]

\* path.startswith(prefix)
StartsWith(path, prefix) ==
    Len(path) >= Len(prefix) /\ SubSeq(path, 1, Len(prefix)) = prefix

StationsPath == <<"/", "s", "t", "a", "t", "i", "o", "n", "s">>

GET == <<"G", "E", "T">>
OPTIONS == <<"O", "P", "T", "I", "O", "N", "S">>
POST == <<"P", "O", "S", "T">>

\* The routing tests with the trailing slash of '/stations/' left out.
Route_AnyStationsPrefix(http_method, path) ==
    IF http_method = OPTIONS THEN "handle_options"
    ELSE IF http_method = GET
    THEN IF path = StationsPath THEN "handle_get_stations"
         ELSE IF StartsWith(path, StationsPath)
         THEN "handle_get_station_by_id"
         ELSE "404"
    ELSE "405"

\* The routing tests of the query lambda_handler, in their order.
Route(http_method, path) ==
    IF http_method = OPTIONS THEN "handle_options"
    ELSE IF http_method = GET
    THEN IF path = StationsPath THEN "handle_get_stations"
         ELSE IF StartsWith(path, StationsPath \o <<"/">>)
         THEN "handle_get_station_by_id"
         ELSE "404"
    ELSE "405"

\* lambda_handler(event, context) of lambda_api_handler.py from its try
\* block on: the response and the store calls made.
api_lambda_handler(event, tbl, limit, failAt) ==
    LET http_method == IF "httpMethod" \in DOMAIN event
                       THEN event.httpMethod.s ELSE <<>>
        path == IF "path" \in DOMAIN event THEN event.path.s ELSE <<>>
        route == Route(http_method, path)
    IN CASE route = "handle_options" -> handle_options(event)
         [] route = "handle_get_stations" ->
                handle_get_stations(event, tbl, limit, failAt)
         [] route = "handle_get_station_by_id" ->
                handle_get_station_by_id(event, tbl, failAt)
         [] route = "404" ->
                [response |-> create_response(404,
                     [error |-> "Not found",
                      message |-> <<"Path ", path, " not found">>]),
                 calls |-> <<>>]
         [] route = "405" ->
                [response |-> create_response(405,
                     [error |-> "Method not allowed",
                      message |-> <<"Method ", http_method, " not supported">>]),
                 calls |-> <<>>]

\* A context object, as the set of the attributes it has.  The contexts of
\* the two files' local-testing blocks, and the context object of the AWS
\* Lambda Python runtime, whose request id is named aws_request_id.
MockContext == {"request_id", "function_name", "memory_limit_in_mb"}
ApiMockContext == {"request_id", "function_name"}
LambdaContext ==
    {"aws_request_id", "function_name", "function_version",
     "invoked_function_arn", "memory_limit_in_mb", "log_group_name",
     "log_stream_name"}

NoResponse == [statusCode |-> 0]

\* What a handler that got to its return statement leaves: its result r,
\* marked as not raised.
Returned(r) ==
    [k \in DOMAIN r \cup {"raised"} |-> IF k = "raised" THEN FALSE ELSE r[k]]

\* The ingestion lambda_handler whole: the logger.info call that reads
\* context.request_id, context.function_name and context.memory_limit_in_mb
\* stands before the try, so an AttributeError there leaves the handler.
telemetry_invoke(event, context, tbl, bkt, now, dynUp, s3Up, hex) ==
    IF {"request_id", "function_name", "memory_limit_in_mb"} \subseteq context
    THEN Returned(lambda_handler(event, tbl, bkt, now, dynUp, s3Up, hex))
    ELSE [raised |-> TRUE, table |-> tbl, bucket |-> bkt,
          calls |-> <<>>, response |-> NoResponse]

\* The query lambda_handler whole: its logger.info call reads
\* context.request_id before the try.
api_invoke(event, context, tbl, limit, failAt) ==
    IF "request_id" \in context
    THEN Returned(api_lambda_handler(event, tbl, limit, failAt))
    ELSE [raised |-> TRUE, calls |-> <<>>, response |-> NoResponse]

S3 == <<"s", "3">>

\* Number of ingestion invocations explored beside the queries.
MaxQueryIngests == 3

\* What the ingestion handler is invoked on beside the queries: a record
\* per station, numbers integral and not, ints and floats; with the table
\* refusing the write; under the Lambda runtime's context.
QueryIngests ==
    {[event |-> MkRecord(StrV(S1), IntV(12), TsZ, FloatV(325)),
      context |-> MockContext, dynUp |-> TRUE],
     [event |-> MkRecord(StrV(S2), FloatV(120), TsZ, Absent),
      context |-> MockContext, dynUp |-> TRUE],
     [event |-> MkRecord(StrV(S3), IntV(0), TsZ, FloatV(300)),
      context |-> MockContext, dynUp |-> TRUE],
     [event |-> MkRecord(StrV(S1), IntV(7), TsZ, Absent),
      context |-> MockContext, dynUp |-> FALSE],
     [event |-> MkRecord(StrV(S1), IntV(7), TsZ, Absent),
      context |-> LambdaContext, dynUp |-> TRUE]}

\* An API Gateway proxy event (method and path are strings): the keys given, a key given as Absent left
\* out.
ApiEvent(http_method, path, path_params) ==
    LET all == [httpMethod |-> http_method, path |-> path,
                pathParameters |-> path_params]
    IN [k \in {f \in DOMAIN all : all[f] # Absent} |-> all[k]]

StationPath(station_id) == StationsPath \o <<"/">> \o station_id

IdParams(station_id) == DictV([station_id |-> StrV(station_id)])

\* The store behaviours a query is explored under: pages of 1 or 2 items,
\* and the store raising at no call, the first or the second.
StoreEnvs ==
    {[limit |-> 1, failAt |-> 0], [limit |-> 2, failAt |-> 0],
     [limit |-> 1, failAt |-> 1], [limit |-> 1, failAt |-> 2]}

StoreUp == [limit |-> 1, failAt |-> 0]
StoreDown == [limit |-> 1, failAt |-> 1]

\* What the query handler is invoked on.
ApiRequests ==
    {[event |-> ApiEvent(StrV(GET), StrV(StationsPath), NullV),
      context |-> ApiMockContext, env |-> e] : e \in StoreEnvs}
    \cup
    {[event |-> ApiEvent(StrV(GET), StrV(StationPath(id)), IdParams(id)),
      context |-> ApiMockContext, env |-> e] :
        id \in {S1, S3}, e \in {StoreUp, StoreDown}}
    \cup
    {[event |-> ApiEvent(StrV(GET), StrV(StationPath(<<>>)), pp),
      context |-> ApiMockContext, env |-> StoreUp] :
        pp \in {Absent, NullV, DictV(EmptyMap), IdParams(<<>>)}}
    \cup
    {[event |-> ApiEvent(StrV(m), StrV(pth), NullV),
      context |-> ApiMockContext, env |-> StoreUp] :
        m \in {GET, OPTIONS, POST},
        pth \in {<<"/", "o">>, StationsPath \o <<"X">>}}
    \cup
    {[event |-> ApiEvent(StrV(OPTIONS), StrV(StationsPath), NullV),
      context |-> ApiMockContext, env |-> StoreUp],
     [event |-> ApiEvent(StrV(POST), StrV(StationPath(S1)), IdParams(S1)),
      context |-> ApiMockContext, env |-> StoreUp],
     [event |-> ApiEvent(Absent, Absent, Absent),
      context |-> ApiMockContext, env |-> StoreUp],
     [event |-> ApiEvent(StrV(GET), StrV(StationsPath), NullV),
      context |-> LambdaContext, env |-> StoreUp]}

NoQuery == [ingested |-> EmptyMap, inv |-> [handler |-> "none"]]

\* Ingestion invocations running at the same time.
Writers == {1, 2}

NoRun == [ing |-> <<>>, rd |-> [pc |-> "none"]]

\* ------------------------------------------------------------------ machine

NoInvocation == [invoked |-> FALSE]

Init ==
    /\ table = EmptyMap
    /\ bucket = EmptyMap
    /\ clock = 0
    /\ last = NoInvocation
    /\ vrec = EmptyMap
    /\ verdict = validate_telemetry(EmptyMap)
    /\ sim = NoStation
    /\ simNow = 0
    /\ upd = NoUpdate
    /\ drv = NoDriver
    /\ qry = NoQuery
    /\ con = NoRun

\* One invocation of the ingestion lambda_handler, start to return.
Ingest ==
    /\ clock < MaxIngests
    /\ \E event \in IngestEvents, dynUp \in BOOLEAN, s3Up \in BOOLEAN, hex \in Hex8 :
        \E r \in {lambda_handler(event, table, bucket, clock, dynUp, s3Up, hex)} :
           /\ table' = r.table
           /\ bucket' = r.bucket
           /\ last' = [invoked |-> TRUE, event |-> event, at |-> clock,
                       dynUp |-> dynUp, s3Up |-> s3Up, hex |-> hex,
                       before |-> [table |-> table, bucket |-> bucket],
                       prev |-> IF last.invoked
                                THEN [invoked |-> TRUE, event |-> last.event,
                                      calls |-> last.calls,
                                      response |-> last.response]
                                ELSE [invoked |-> FALSE],
                       calls |-> r.calls, response |-> r.response]
    /\ clock' = clock + 1
    /\ UNCHANGED <<validatorVars, simVars, driverVars, queryVars, concurrentVars>>

\* One call of validate_telemetry.
Validate ==
    /\ \E data \in ValidatorInputs :
        /\ vrec' = data
        /\ verdict' = validate_telemetry(data)
    /\ UNCHANGED <<ingestVars, simVars, driverVars, queryVars, concurrentVars>>

Next == Ingest

Spec == Init /\ [][Next]_vars

NextValidate == Validate

SpecValidate == Init /\ [][NextValidate]_vars

\* A BatterySwapStation has been constructed.
InitSim ==
    /\ table = EmptyMap
    /\ bucket = EmptyMap
    /\ clock = 0
    /\ last = NoInvocation
    /\ vrec = EmptyMap
    /\ verdict = validate_telemetry(EmptyMap)
    /\ sim \in InitialStations
    /\ simNow = 0
    /\ upd = NoUpdate
    /\ drv = NoDriver
    /\ qry = NoQuery
    /\ con = NoRun

\* One call of BatterySwapStation.update(), some time after the previous one.
Tick ==
    /\ simNow < MaxTicks
    /\ \E d \in SimDraws :
          sim' = update(sim, d, simNow + 1)
    /\ simNow' = simNow + 1
    /\ UNCHANGED <<upd, ingestVars, validatorVars, driverVars, queryVars, concurrentVars>>

NextSim == Tick

\* One pass of the driver's loop for a station, station.update() meeting the
\* draws d.
TickWith(d) ==
    /\ sim' = Saturated(update(sim, d, Min2(simNow + 1, ClockHorizon)))
    /\ simNow' = Min2(simNow + 1, ClockHorizon)
    /\ UNCHANGED <<upd, ingestVars, validatorVars, driverVars, queryVars, concurrentVars>>

TickOn == \E d \in FairDraws : TickWith(d)

\* The tick in which random.random() < 0.10 holds in simulate_status_change,
\* and the tick in which the charging test succeeds and the swap test fails.
ExitDrawn == \E d \in FairDraws : d.toOper /\ TickWith(d)
ChargedNotSwapped == \E d \in FairDraws : d.charge /\ ~d.swap /\ TickWith(d)

\* while True never ends by itself, and every tick draws afresh: an outcome
\* of positive probability that stays possible is eventually drawn.
SpecSimFair ==
    /\ InitSim
    /\ [][TickOn]_vars
    /\ SF_vars(ExitDrawn)
    /\ SF_vars(ChargedNotSwapped)

\* No update() has been called.
InitUpdate ==
    /\ table = EmptyMap
    /\ bucket = EmptyMap
    /\ clock = 0
    /\ last = NoInvocation
    /\ vrec = EmptyMap
    /\ verdict = validate_telemetry(EmptyMap)
    /\ sim = NoStation
    /\ simNow = 0
    /\ upd = NoUpdate
    /\ drv = NoDriver
    /\ qry = NoQuery
    /\ con = NoRun

\* One call of update() on a station, under any draws.
UpdateOnce ==
    /\ ~upd.called
    /\ \E st \in UpdateStations, d \in Draws(TempSteps, HumSteps) :
          upd' = [called |-> TRUE, before |-> st, draws |-> d, now |-> 1,
                  after |-> update(st, d, 1)]
    /\ UNCHANGED <<sim, simNow, ingestVars, validatorVars, driverVars, queryVars, concurrentVars>>

NextUpdate == UpdateOnce

SpecUpdate == InitUpdate /\ [][NextUpdate]_vars

SpecSim == InitSim /\ [][NextSim]_vars

\* An IoTSimulator has been constructed and run() entered.
InitDriver ==
    /\ table = EmptyMap
    /\ bucket = EmptyMap
    /\ clock = 0
    /\ last = NoInvocation
    /\ vrec = EmptyMap
    /\ verdict = validate_telemetry(EmptyMap)
    /\ sim = NoStation
    /\ simNow = 0
    /\ upd = NoUpdate
    /\ drv = IoTSimulator(NumStations)
    /\ qry = NoQuery
    /\ con = NoRun

\* The pcs at which run() is inside its try body.
Running == {"connect", "loop", "update", "publish", "sleep"}

\* self.connect_to_iot(); an exception goes to run()'s except Exception.
Connect ==
    /\ drv.pc = "connect"
    /\ \E outcome \in ConnectOutcomes :
        \E r \in {connect_to_iot(drv, outcome)} :
            drv' = [r.self EXCEPT !.pc = IF r.raised THEN "finally" ELSE "loop"]
    /\ UNCHANGED <<ingestVars, validatorVars, simVars, queryVars, concurrentVars>>

\* while True: the for loop over self.stations begins.
StartTick ==
    /\ drv.pc = "loop"
    /\ drv.ticks < MaxDriverTicks
    /\ drv' = [drv EXCEPT !.ticks = @ + 1, !.idx = 1, !.pc = "update"]
    /\ UNCHANGED <<ingestVars, validatorVars, simVars, queryVars, concurrentVars>>

\* The for loop updating every station before it publishes the first.
Update_Batch ==
    /\ drv.pc = "update"
    /\ \E d \in DriverDraws :
        drv' = [drv EXCEPT !.stations = [i \in DOMAIN @ |->
                                            IF drv.idx = 1
                                            THEN update(@[i], d, drv.now + 1)
                                            ELSE @[i]],
                           !.now = @ + 1,
                           !.updates = [i \in DOMAIN @ |->
                                           IF drv.idx = 1 THEN @[i] + 1 ELSE @[i]],
                           !.pc = "publish"]
    /\ UNCHANGED <<ingestVars, validatorVars, simVars, queryVars, concurrentVars>>

\* station.update()
Update ==
    /\ drv.pc = "update"
    /\ \E d \in DriverDraws :
        drv' = [drv EXCEPT !.stations[drv.idx] = update(@, d, drv.now + 1),
                           !.now = @ + 1,
                           !.updates[drv.idx] = @ + 1,
                           !.pc = "publish"]
    /\ UNCHANGED <<ingestVars, validatorVars, simVars, queryVars, concurrentVars>>

\* self.publish_telemetry(station), then the next station or the end of the
\* for loop; an exception goes to run()'s except Exception.
Publish ==
    /\ drv.pc = "publish"
    /\ \E acked \in BOOLEAN :
        \E r \in {publish_telemetry(drv, drv.idx, acked)} :
            drv' = IF r.raised THEN [r.self EXCEPT !.pc = "finally"]
                   ELSE IF drv.idx < Len(drv.stations)
                   THEN [r.self EXCEPT !.idx = @ + 1, !.pc = "update"]
                   ELSE [r.self EXCEPT !.idx = 0, !.pc = "sleep"]
    /\ UNCHANGED <<ingestVars, validatorVars, simVars, queryVars, concurrentVars>>

\* time.sleep(self.interval)
Sleep ==
    /\ drv.pc = "sleep"
    /\ drv' = [drv EXCEPT !.pc = "loop"]
    /\ UNCHANGED <<ingestVars, validatorVars, simVars, queryVars, concurrentVars>>

\* KeyboardInterrupt raised in run()'s try body: control leaves the body for
\* except KeyboardInterrupt and then the finally block.  Raised inside
\* connect_to_iot() it may find the connection object built but not connected.
Cancel ==
    /\ drv.pc \in Running
    /\ \E conn \in IF drv.pc = "connect" THEN {"None", "built"}
                   ELSE {drv.mqtt_connection} :
        drv' = [drv EXCEPT !.cancelled = TRUE,
                           !.cancelledAt =
                               [pc |-> drv.pc, idx |-> drv.idx,
                                ticks |-> drv.ticks,
                                connected |-> drv.mqtt_connection = "connected"],
                           !.mqtt_connection = conn,
                           !.pc = "finally"]
    /\ UNCHANGED <<ingestVars, validatorVars, simVars, queryVars, concurrentVars>>

\* The finally block; run() returns.
Finally ==
    /\ drv.pc = "finally"
    /\ drv' = run_finally(drv)
    /\ UNCHANGED <<ingestVars, validatorVars, simVars, queryVars, concurrentVars>>

\* The two execution contexts, which share no memory: either the ingestion
\* handler is invoked, once, or the driver runs.
InitNoRetry == Init \/ InitDriver

IngestAlone ==
    /\ drv = NoDriver
    /\ clock = 0
    /\ Ingest

\* The steps run() takes by itself.
DriverStep == Connect \/ StartTick \/ Update \/ Publish \/ Sleep \/ Finally

NextDriver == DriverStep \/ Cancel

SpecDriver == InitDriver /\ [][NextDriver]_vars

SpecNoRetry == InitNoRetry /\ [][IngestAlone \/ NextDriver]_vars

\* run() is one thread of control that keeps executing: a step it can take
\* is taken.
SpecDriverFair == InitDriver /\ [][NextDriver]_vars /\ WF_vars(DriverStep)

\* The stores are empty and neither handler has been invoked.
InitQuery ==
    /\ table = EmptyMap
    /\ bucket = EmptyMap
    /\ clock = 0
    /\ last = NoInvocation
    /\ vrec = EmptyMap
    /\ verdict = validate_telemetry(EmptyMap)
    /\ sim = NoStation
    /\ simNow = 0
    /\ upd = NoUpdate
    /\ drv = NoDriver
    /\ qry = NoQuery
    /\ con = NoRun

\* One invocation of the ingestion lambda_handler, entry to return or raise.
\* qry.ingested keeps, per station, the event of the latest put_item that
\* took effect.
IngestQ ==
    /\ clock < MaxQueryIngests
    /\ \E i \in QueryIngests :
        \E r \in {telemetry_invoke(i.event, i.context, table, bucket, clock,
                                   i.dynUp, TRUE, <<"0", "0", "0", "0", "0", "0", "0", "0">>)} :
           /\ table' = r.table
           /\ bucket' = r.bucket
           /\ qry' = [ingested |->
                         IF \E c \in DOMAIN r.calls :
                               r.calls[c].op = "put_item" /\ r.calls[c].ok
                         THEN [k \in DOMAIN qry.ingested \cup {i.event.station_id.s} |->
                                  IF k = i.event.station_id.s THEN i.event
                                  ELSE qry.ingested[k]]
                         ELSE qry.ingested,
                      inv |-> [handler |-> "ingest", event |-> i.event,
                               context |-> i.context, raised |-> r.raised,
                               calls |-> r.calls, response |-> r.response]]
    /\ clock' = clock + 1
    /\ UNCHANGED <<last, validatorVars, simVars, driverVars, concurrentVars>>

\* One invocation of the query lambda_handler, entry to return or raise.
Query ==
    /\ \E q \in ApiRequests :
        \E r \in {api_invoke(q.event, q.context, table, q.env.limit, q.env.failAt)} :
           qry' = [qry EXCEPT !.inv =
                      [handler |-> "query", event |-> q.event,
                       context |-> q.context, env |-> q.env,
                       raised |-> r.raised, calls |-> r.calls,
                       response |-> r.response]]
    /\ UNCHANGED <<ingestVars, validatorVars, simVars, driverVars, concurrentVars>>

NextQuery == IngestQ \/ Query

SpecQuery == InitQuery /\ [][NextQuery]_vars

\* Two ingestion invocations and one query invocation in flight together,
\* each a sequence of steps with one store call per step; a store call is
\* atomic for the key it touches.
InitConcurrent ==
    /\ table = EmptyMap
    /\ bucket = EmptyMap
    /\ clock = 0
    /\ last = NoInvocation
    /\ vrec = EmptyMap
    /\ verdict = validate_telemetry(EmptyMap)
    /\ sim = NoStation
    /\ simNow = 0
    /\ upd = NoUpdate
    /\ drv = NoDriver
    /\ qry = NoQuery
    /\ con = [ing |-> [p \in Writers |-> [pc |-> "start"]],
              rd |-> [pc |-> "start"]]

\* Invocation p of the ingestion handler up to its first store call:
\* validate_telemetry(data), and the 400 for a rejected record.
CValidate(p) ==
    /\ con.rd.pc # "none"
    /\ con.ing[p].pc = "start"
    /\ \E event \in IngestEvents :
        con' = [con EXCEPT !.ing[p] =
                   IF validate_telemetry(event).ok
                   THEN [pc |-> "put", event |-> event]
                   ELSE [pc |-> "done", event |-> event, statusCode |-> 400]]
    /\ UNCHANGED <<ingestVars, validatorVars, simVars, driverVars, queryVars>>

\* dynamodb_success = store_in_dynamodb(data), read at wall-clock time p.
CPut(p) ==
    /\ con.rd.pc # "none"
    /\ con.ing[p].pc = "put"
    /\ \E up \in BOOLEAN :
        \E r \in {store_in_dynamodb(con.ing[p].event, table, p, up)} :
            /\ table' = r.table
            /\ con' = [con EXCEPT !.ing[p] =
                          [pc |-> "archive", event |-> con.ing[p].event,
                           dynamodb_success |-> r.ret]]
    /\ UNCHANGED <<bucket, clock, last, validatorVars, simVars, driverVars, queryVars>>

\* s3_success = archive_to_s3(data), and the response.
CArchive(p) ==
    /\ con.rd.pc # "none"
    /\ con.ing[p].pc = "archive"
    /\ \E up \in BOOLEAN, hex \in Hex8 :
        \E a \in {archive_to_s3(con.ing[p].event, bucket, p, up, hex)} :
            /\ bucket' = a.bucket
            /\ con' = [con EXCEPT !.ing[p] =
                          [pc |-> "done", event |-> con.ing[p].event,
                           dynamodb_success |-> con.ing[p].dynamodb_success,
                           s3_success |-> a.ret,
                           statusCode |->
                               Respond(con.ing[p].event.station_id,
                                       con.ing[p].dynamodb_success, a.ret,
                                       p).statusCode]]
    /\ UNCHANGED <<table, clock, last, validatorVars, simVars, driverVars, queryVars>>

\* GET /stations/{id}: get_station_by_id makes its one get_item call.
QGet ==
    /\ con.rd.pc = "start"
    /\ \E id \in {S1, S2} :
        \E r \in {get_station_by_id(id, table, 0)} :
            con' = [con EXCEPT !.rd =
                       [pc |-> "done", kind |-> "get", id |-> id,
                        rows |-> IF r.ret = NullV THEN <<>> ELSE <<r.ret>>]]
    /\ UNCHANGED <<ingestVars, validatorVars, simVars, driverVars, queryVars>>

\* What get_all_stations holds after a scan call answered `response`, with
\* `items` collected so far: it loops while LastEvaluatedKey is there, and
\* returns the converted items otherwise.
AfterScan(response, items) ==
    IF "LastEvaluatedKey" \in DOMAIN response
    THEN [pc |-> "scan", kind |-> "list", response |-> response,
          items |-> items]
    ELSE [pc |-> "done", kind |-> "list",
          rows |-> [i \in DOMAIN items |-> decimal_to_float(items[i])]]

\* GET /stations: the first table.scan() of get_all_stations, a page being
\* one item.
QScanFirst ==
    /\ con.rd.pc = "start"
    /\ \E response \in {Scan(table, NullV, 1)} :
        con' = [con EXCEPT !.rd = AfterScan(response, response.Items)]
    /\ UNCHANGED <<ingestVars, validatorVars, simVars, driverVars, queryVars>>

\* table.scan(ExclusiveStartKey=response['LastEvaluatedKey']) in the while
\* loop of get_all_stations.
QScanNext ==
    /\ con.rd.pc = "scan"
    /\ \E response \in {Scan(table, con.rd.response.LastEvaluatedKey, 1)} :
        con' = [con EXCEPT !.rd =
                   AfterScan(response, con.rd.items \o response.Items)]
    /\ UNCHANGED <<ingestVars, validatorVars, simVars, driverVars, queryVars>>

NextConcurrent ==
    \/ \E p \in Writers : CValidate(p) \/ CPut(p) \/ CArchive(p)
    \/ QGet
    \/ QScanFirst
    \/ QScanNext

SpecConcurrent == InitConcurrent /\ [][NextConcurrent]_vars

\* ------------------------------------------------------------------ claims: ingestion

\* The latest invocation was given a record the validator accepts.
LastValid == last.invoked /\ validate_telemetry(last.event).ok

\* The latest invocation answered with the success/partial/failure body.
LastOutcome == last.invoked /\ "dynamodb_success" \in DOMAIN last.response.body

\* The calls of the latest invocation to one store operation.
CallsTo(op) == SelectSeq(last.calls, LAMBDA c : c.op = op)

\* The record a table item was made from: the stamp dropped, Decimal back to
\* float.
ItemRecord(item) ==
    [k \in DOMAIN item \ {"lambda_processed_at"} |->
        IF item[k].t = "Decimal" THEN FloatV(item[k].tenths) ELSE item[k]]

\* json.loads of an object body.
JsonLoads(body) ==
    [k \in DOMAIN body |->
        CASE body[k].json = "number" /\ "int" \in DOMAIN body[k] -> IntV(body[k].int)
          [] body[k].json = "number" /\ "tenths" \in DOMAIN body[k] -> FloatV(body[k].tenths)
          [] body[k].json = "true" -> BoolV(TRUE)
          [] body[k].json = "false" -> BoolV(FALSE)
          [] body[k].json = "null" -> NullV
          [] body[k].json = "string" /\ "s" \in DOMAIN body[k] -> StrV(body[k].s)
          [] OTHER -> StrV(<<"?">>)]

StoresHoldValidRecords ==
    /\ \A k \in DOMAIN table : validate_telemetry(ItemRecord(table[k])).ok
    /\ \A k \in DOMAIN bucket : validate_telemetry(JsonLoads(bucket[k].Body)).ok

\* C1: a record the validator rejects is answered with 400 and reaches
\* neither store (no put_item, no put_object, both stores as before); so
\* every table item and every archived object holds a record that passes
\* validation.
C1_RejectedReachesNoStore ==
    /\ (last.invoked /\ ~validate_telemetry(last.event).ok) =>
          /\ last.response.statusCode = 400
          /\ last.calls = <<>>
          /\ table = last.before.table
          /\ bucket = last.before.bucket
    /\ StoresHoldValidRecords

\* A rejected record arrived while both stores held earlier records.
C1_Witness ==
    /\ last.invoked
    /\ last.response.statusCode = 400
    /\ DOMAIN table # {}
    /\ DOMAIN bucket # {}

\* C2: for a valid record both writes are attempted, put_item first, each
\* store's failure ends up in that store's flag of the normal response (not
\* in the catch-all), and each store's write takes effect exactly when that
\* store accepted it, whatever the other store did.
C2_WritesIsolated ==
    LastValid =>
        /\ Len(last.calls) = 2
        /\ last.calls[1].op = "put_item"
        /\ last.calls[2].op = "put_object"
        /\ LastOutcome
        /\ last.response.body.dynamodb_success = last.dynUp
        /\ last.response.body.s3_success = last.s3Up
        /\ IF last.dynUp
           THEN /\ last.event.station_id.s \in DOMAIN table
                /\ table[last.event.station_id.s].lambda_processed_at = IsoNow(last.at)
           ELSE table = last.before.table
        /\ IF last.s3Up
           THEN /\ last.calls[2].key \in DOMAIN bucket
                /\ bucket[last.calls[2].key].Metadata.ingestion_time = IsoNow(last.at)
           ELSE bucket = last.before.bucket

\* The table refused the write and the object was archived all the same.
C2_Witness ==
    /\ LastValid
    /\ ~last.dynUp
    /\ last.s3Up
    /\ table = last.before.table
    /\ bucket # last.before.bucket

\* C3: for a valid record the status code is 200 exactly when both stores
\* took the write, 207 exactly when exactly one did, 500 exactly when
\* neither did.
C3_StatusCode ==
    LastValid =>
        /\ last.response.statusCode = 200 <=> (last.dynUp /\ last.s3Up)
        /\ last.response.statusCode = 207 <=> (last.dynUp # last.s3Up)
        /\ last.response.statusCode = 500 <=> (~last.dynUp /\ ~last.s3Up)

\* A partial success: only the archive took the write.
C3_Witness ==
    /\ LastValid
    /\ last.response.statusCode = 207
    /\ ~last.dynUp
    /\ last.s3Up

\* Both writes of an invocation record succeeded.
FullSuccess(inv) == inv.invoked /\ inv.response.statusCode = 200

\* C4 (as claimed): a valid record ingested twice in a row, both writes
\* succeeding both times, leaves one table item for its station and two
\* distinct archived objects, the first one untouched by the second ingest.
C4_TwiceGivesTwoObjects ==
    (LastValid /\ FullSuccess(last) /\ FullSuccess(last.prev)
        /\ last.prev.event = last.event) =>
        LET k1 == last.prev.calls[2].key
            k2 == last.calls[2].key
        IN /\ Cardinality({k \in DOMAIN table :
                              table[k].station_id = last.event.station_id}) = 1
           /\ k1 # k2
           /\ {k1, k2} \subseteq DOMAIN bucket
           /\ bucket[k1] = last.before.bucket[k1]

\* C5: the table holds one item per station id, and a successful upsert of
\* record R leaves, for R's station, exactly R's fields (floats as equal
\* Decimals) plus lambda_processed_at, and every other station's item as it
\* was.
C5_FullOverwrite ==
    /\ \A k \in DOMAIN table : table[k].station_id = StrV(k)
    /\ (LastOutcome /\ last.response.body.dynamodb_success) =>
          LET sid == last.event.station_id.s
          IN /\ sid \in DOMAIN table
             /\ DOMAIN table = DOMAIN last.before.table \cup {sid}
             /\ DOMAIN table[sid] = DOMAIN last.event \cup {"lambda_processed_at"}
             /\ ItemRecord(table[sid]) = last.event
             /\ table[sid].lambda_processed_at = IsoNow(last.at)
             /\ \A k \in DOMAIN last.before.table :
                   k # sid => table[k] = last.before.table[k]

\* An item with a temperature was replaced by a record without one.
C5_Witness ==
    /\ LastOutcome
    /\ last.response.body.dynamodb_success
    /\ last.event.station_id.s \in DOMAIN last.before.table
    /\ "temperature" \in DOMAIN last.before.table[last.event.station_id.s]
    /\ "temperature" \notin DOMAIN last.event
    /\ "temperature" \notin DOMAIN table[last.event.station_id.s]

\* A datetime's fields moved to UTC (a naive one is taken as UTC).
ToUtc(dt) ==
    LET m == dt.hour * 60 + dt.minute - dt.offset
        shift == IF m < 0 THEN -1 ELSE IF m >= 1440 THEN 1 ELSE 0
        mm == m - shift * 1440
        d0 == dt.day + shift
        prevMonth == IF dt.month = 1 THEN 12 ELSE dt.month - 1
        prevYear == IF dt.month = 1 THEN dt.year - 1 ELSE dt.year
        nextMonth == IF dt.month = 12 THEN 1 ELSE dt.month + 1
        nextYear == IF dt.month = 12 THEN dt.year + 1 ELSE dt.year
        ymd == IF d0 < 1
               THEN <<prevYear, prevMonth, DaysInMonth(prevYear, prevMonth)>>
               ELSE IF d0 > DaysInMonth(dt.year, dt.month)
               THEN <<nextYear, nextMonth, 1>>
               ELSE <<dt.year, dt.month, d0>>
    IN [year |-> ymd[1], month |-> ymd[2], day |-> ymd[3],
        hour |-> mm \div 60, minute |-> mm % 60, second |-> dt.second]

\* telemetry/year=YYYY/month=MM/day=DD/S_YYYYMMDD_HHMMSS_<hex>.json
KeyFormat(station, f, hex) ==
    <<"telemetry/", "year=">> \o Digits(f.year, 4)
    \o <<"/", "month=">> \o Digits(f.month, 2)
    \o <<"/", "day=">> \o Digits(f.day, 2)
    \o <<"/">> \o station \o <<"_">>
    \o Digits(f.year, 4) \o Digits(f.month, 2) \o Digits(f.day, 2) \o <<"_">>
    \o Digits(f.hour, 2) \o Digits(f.minute, 2) \o Digits(f.second, 2)
    \o <<"_">> \o hex \o <<".json">>

\* C6 (as claimed): the object key of a valid record is made of its station
\* id and of the UTC year, month, day, hour, minute and second of its
\* timestamp, also when the timestamp carries a non-zero offset.
C6_KeyInUtc ==
    (LastValid /\ CallsTo("put_object") # <<>>) =>
        CallsTo("put_object")[1].key =
            KeyFormat(last.event.station_id.s,
                      ToUtc(ParseTimestamp(last.event.timestamp).dt),
                      last.hex)

\* C7: the body archived for a valid record is the record as received, with
\* its floats and without lambda_processed_at, whether or not the upsert
\* succeeded.
C7_ArchivesOriginal ==
    (LastValid /\ last.s3Up /\ CallsTo("put_object") # <<>>) =>
        LET obj == bucket[CallsTo("put_object")[1].key]
        IN /\ JsonLoads(obj.Body) = last.event
           /\ "lambda_processed_at" \notin DOMAIN obj.Body
           /\ \A f \in DOMAIN last.event :
                 IsFloat(last.event[f]) => obj.Body[f] = JsonValue(last.event[f])

\* A record with a float was normalised and stored, then archived.
C7_Witness ==
    /\ LastValid
    /\ FullSuccess(last)
    /\ "temperature" \in DOMAIN last.event
    /\ table[last.event.station_id.s].temperature.t = "Decimal"
    /\ CallsTo("put_object")[1].key \in DOMAIN bucket

\* The station of the latest invocation's record, and the archive key of its
\* object.
LastStation == last.event.station_id.s
LastObjectKey ==
    S3Key(LastStation, ParseTimestamp(last.event.timestamp).dt, last.hex)

\* C29: last write wins by arrival order: when two valid records of one
\* station are ingested one after the other and both upserts succeed, the
\* station's row afterwards is the second record's, stamped by the second
\* invocation, whatever the two record timestamps are.
C29_LastArrivalWins ==
    (/\ LastValid
     /\ last.prev.invoked
     /\ validate_telemetry(last.prev.event).ok
     /\ last.prev.event.station_id = last.event.station_id
     /\ last.prev.calls[1].ok
     /\ last.calls[1].ok) =>
        /\ table[LastStation] = DataToStore(last.event, last.at)
        /\ table[LastStation].timestamp = last.event.timestamp

\* A (14:23:45 UTC on the 15th) then B (23:00:00 UTC on the 14th) for s1,
\* both upserts succeeding: the row carries B's earlier timestamp.
C29_Witness ==
    /\ LastValid
    /\ last.prev.invoked
    /\ validate_telemetry(last.prev.event).ok
    /\ last.prev.event.station_id = StrV(S1)
    /\ last.event.station_id = StrV(S1)
    /\ last.prev.event.timestamp = TsZ
    /\ last.event.timestamp = TsPlus
    /\ last.prev.calls[1].ok
    /\ last.calls[1].ok
    /\ table[S1].timestamp = TsPlus

\* C30: the outcome flags are truthful.  For a valid record the response
\* carries both flags; dynamodb_success is true exactly when the station's
\* row is now the one this invocation made, and s3_success exactly when the
\* object at this invocation's key is the one it put; a false flag goes with
\* that store being exactly as it was before the call.
C30_FlagsTruthful ==
    LastValid =>
        /\ LastOutcome
        /\ last.response.body.dynamodb_success =
              (/\ LastStation \in DOMAIN table
               /\ table[LastStation] = DataToStore(last.event, last.at))
        /\ ~last.response.body.dynamodb_success => table = last.before.table
        /\ last.response.body.s3_success =
              (/\ LastObjectKey \in DOMAIN bucket
               /\ bucket[LastObjectKey].Metadata.ingestion_time = IsoNow(last.at)
               /\ bucket[LastObjectKey].Body = JsonDumps(last.event))
        /\ ~last.response.body.s3_success => bucket = last.before.bucket

\* The upsert failed and the archive put succeeded: the table still holds
\* the station's previous row while the archive holds the newer record.
C30_Witness ==
    /\ LastValid
    /\ ~last.response.body.dynamodb_success
    /\ last.response.body.s3_success
    /\ LastStation \in DOMAIN table
    /\ table[LastStation].timestamp # last.event.timestamp
    /\ bucket[LastObjectKey].Body = JsonDumps(last.event)

\* ------------------------------------------------------------------ claims: validator

HasRequired(r) == {"station_id", "battery_available", "timestamp"} \subseteq DOMAIN r

\* C8: the verdict is that of the first failing check, in the order missing
\* field (station_id, then battery_available, then timestamp), station id,
\* battery count, timestamp; the record is accepted exactly when no check
\* fails.
C8_FirstFailingCheck ==
    /\ verdict.raised = "none"
    /\ IF "station_id" \notin DOMAIN vrec
       THEN verdict = Reject(MissingMsg("station_id"))
       ELSE IF "battery_available" \notin DOMAIN vrec
       THEN verdict = Reject(MissingMsg("battery_available"))
       ELSE IF "timestamp" \notin DOMAIN vrec
       THEN verdict = Reject(MissingMsg("timestamp"))
       ELSE IF StationIdInvalid(vrec.station_id)
       THEN verdict = Reject(StationIdMsg)
       ELSE IF BatteryInvalid(vrec.battery_available)
       THEN verdict = Reject(BatteryMsg)
       ELSE IF ParseTimestamp(vrec.timestamp).raised # "none"
       THEN verdict = Reject(TimestampMsg)
       ELSE verdict.ok /\ verdict.error = <<>>

\* A record failing checks 2, 3 and 4 at once got the verdict of check 2.
C8_Witness ==
    /\ HasRequired(vrec)
    /\ StationIdInvalid(vrec.station_id)
    /\ BatteryInvalid(vrec.battery_available)
    /\ ParseTimestamp(vrec.timestamp).raised # "none"
    /\ verdict = Reject(StationIdMsg)

\* A JSON number: an int or a float, not a boolean.
IsNumber(v) == v.t \in {"int", "float"}

\* C9 (as claimed): a record that passes the checks before it and whose
\* battery_available is negative or is no number (a boolean, a string, null)
\* is rejected with the battery-count reason.
C9_NonNumberRejected ==
    (/\ HasRequired(vrec)
     /\ ~StationIdInvalid(vrec.station_id)
     /\ \/ ~IsNumber(vrec.battery_available)
        \/ NumTenths(vrec.battery_available) < 0) =>
        verdict = Reject(BatteryMsg)

\* ISO-8601 extended format YYYY-MM-DDThh:mm:ss with nothing, Z or
\* (+|-)hh:mm after it.
Iso8601(s) ==
    /\ Len(s) \in {19, 20, 25}
    /\ \A k \in 1..19 :
          CASE k \in {5, 8} -> s[k] = "-"
            [] k = 11 -> s[k] = "T"
            [] k \in {14, 17} -> s[k] = ":"
            [] OTHER -> IsDigit(s[k])
    /\ ParseNat(SubSeq(s, 6, 7)) \in 1..12
    /\ ParseNat(SubSeq(s, 9, 10)) \in
          1..DaysInMonth(ParseNat(SubSeq(s, 1, 4)), ParseNat(SubSeq(s, 6, 7)))
    /\ ParseNat(SubSeq(s, 12, 13)) < 24
    /\ ParseNat(SubSeq(s, 15, 16)) < 60
    /\ ParseNat(SubSeq(s, 18, 19)) < 60
    /\ Len(s) = 20 => s[20] = "Z"
    /\ Len(s) = 25 =>
          /\ s[20] \in {"+", "-"}
          /\ s[23] = ":"
          /\ \A k \in {21, 22, 24, 25} : IsDigit(s[k])
          /\ ParseNat(SubSeq(s, 21, 22)) < 24
          /\ ParseNat(SubSeq(s, 24, 25)) < 60

\* C10 (as claimed): a record that passes the checks before it is rejected
\* with the timestamp reason when its timestamp is no string or no ISO-8601
\* text, and accepted when its timestamp is ISO-8601 text ending in Z.
C10_TimestampChecked ==
    (/\ HasRequired(vrec)
     /\ ~StationIdInvalid(vrec.station_id)
     /\ ~BatteryInvalid(vrec.battery_available)) =>
        IF IsStr(vrec.timestamp) /\ Iso8601(vrec.timestamp.s)
        THEN vrec.timestamp.s[Len(vrec.timestamp.s)] = "Z" => verdict = Accept
        ELSE verdict = Reject(TimestampMsg)

\* ------------------------------------------------------------------ claims: simulator

\* C11: after construction and after any number of update() ticks a
\* station's available and charging battery counts are never negative, its
\* temperature lies in [15.0, 35.0] and its humidity in [20.0, 80.0].
C11_SimulatorBounds ==
    /\ sim.battery_available >= 0
    /\ sim.battery_charging >= 0
    /\ sim.temperature \in TempMin..TempMax
    /\ sim.humidity \in HumMin..HumMax

\* Eleven steps of 0.5 from 20.0 end on an odd multiple of 0.5 away from
\* 20.0, so a station at 15.0 after its eleventh tick has had a step cut by
\* the clamp; likewise humidity at 20.0.  Its last available battery is gone.
C11_Witness ==
    /\ simNow = 11
    /\ sim.temperature = TempMin
    /\ sim.humidity = HumMin
    /\ sim.battery_available = 0

\* The charging rule fires in the explored call of update().
ChargeFires == upd.before.battery_charging > 0 /\ upd.draws.charge

\* The available count the charging rule leaves to the swap rule.
AvailableAtSwap ==
    upd.before.battery_available + (IF ChargeFires THEN 1 ELSE 0)

\* The swap rule fires, its guard read on that count.
SwapFires == AvailableAtSwap > 0 /\ upd.draws.swap

\* C21: one update() is the charging rule, then the swap rule on the counts
\* the charging rule left, then temperature, humidity and status: a station
\* with no available battery and one charging can swap in the same tick, and
\* when both rules fire the two counts end as they began while the swap
\* count grows by one.
C21_RuleOrder ==
    upd.called =>
        LET b == upd.before
            a == upd.after
            charged == IF ChargeFires THEN 1 ELSE 0
            swapped == IF SwapFires THEN 1 ELSE 0
        IN /\ a.battery_available = b.battery_available + charged - swapped
           /\ a.battery_charging = b.battery_charging - charged + swapped
           /\ a.total_swaps_today = b.total_swaps_today + swapped
           /\ (ChargeFires /\ upd.draws.swap) =>
                 /\ a.battery_available = b.battery_available
                 /\ a.battery_charging = b.battery_charging
                 /\ a.total_swaps_today = b.total_swaps_today + 1
           /\ a.temperature =
                 Max2(TempMin, Min2(TempMax, b.temperature + upd.draws.dTemp))
           /\ a.humidity =
                 Max2(HumMin, Min2(HumMax, b.humidity + upd.draws.dHum))

\* A station without an available battery charged one and swapped it in the
\* same tick.
C21_Witness ==
    /\ upd.called
    /\ upd.before.battery_available = 0
    /\ upd.before.battery_charging > 0
    /\ upd.draws.charge
    /\ upd.draws.swap
    /\ upd.after.battery_available = 0
    /\ upd.after.total_swaps_today = upd.before.total_swaps_today + 1

\* C22: a constructed station is operational; a tick leaves the status one
\* of operational and maintenance, moving an operational station to
\* maintenance exactly when that draw says so and a station in maintenance
\* back exactly when that draw says so: a station entering maintenance does
\* not leave it in the same tick.
C22_StatusMachine ==
    upd.called =>
        /\ upd.before \in InitialStations => upd.before.status = "operational"
        /\ upd.after.status \in {"operational", "maintenance"}
        /\ upd.before.status = "operational" =>
              upd.after.status =
                  IF upd.draws.toMaint THEN "maintenance" ELSE "operational"
        /\ upd.before.status = "maintenance" =>
              upd.after.status =
                  IF upd.draws.toOper THEN "operational" ELSE "maintenance"

\* An operational station met both status draws and is in maintenance.
C22_Witness ==
    /\ upd.called
    /\ upd.before.status = "operational"
    /\ upd.draws.toMaint
    /\ upd.draws.toOper
    /\ upd.after.status = "maintenance"

\* A swap field differs after the explored call of update().
SwapSeen ==
    \/ upd.after.total_swaps_today # upd.before.total_swaps_today
    \/ upd.after.last_swap_time # upd.before.last_swap_time

C27_BatteryConservation ==
    /\ [](/\ sim.battery_available + sim.battery_charging \in 10..21
          /\ sim.battery_available \in
                0..(sim.battery_available + sim.battery_charging)
          /\ sim.battery_charging \in
                0..(sim.battery_available + sim.battery_charging))
    /\ [][sim'.battery_available + sim'.battery_charging =
             sim.battery_available + sim.battery_charging]_vars

\* Every battery of the 8 + 2 station is available after some ticks.
C27_Witness ==
    /\ simNow > 0
    /\ sim.battery_available = 10
    /\ sim.battery_charging = 0

\* A station with the other status, and a station without its status.
OtherStatus(st) ==
    [st EXCEPT !.status = IF @ = "operational" THEN "maintenance"
                          ELSE "operational"]
BesideStatus(st) == [k \in DOMAIN st \ {"status"} |-> st[k]]

\* C31: the status never influences the rest of the station.  The same
\* update() under the same draws on the station with the other status
\* leaves the same battery counts, swap count, last swap time, temperature
\* and humidity; whatever the status, the charging and swap rules fire
\* exactly on their counts and draws, and temperature and humidity take
\* their clamped steps.
C31_StatusDoesNotInterfere ==
    upd.called =>
        /\ \A twin \in {update(OtherStatus(upd.before), upd.draws, upd.now)} :
              BesideStatus(twin) = BesideStatus(upd.after)
        /\ upd.after.battery_available =
              AvailableAtSwap - (IF SwapFires THEN 1 ELSE 0)
        /\ upd.after.total_swaps_today =
              upd.before.total_swaps_today + (IF SwapFires THEN 1 ELSE 0)
        /\ upd.after.temperature =
              Max2(TempMin, Min2(TempMax, upd.before.temperature + upd.draws.dTemp))
        /\ upd.after.humidity =
              Max2(HumMin, Min2(HumMax, upd.before.humidity + upd.draws.dHum))

\* A station in maintenance, staying in maintenance, performed a swap.
C31_Witness ==
    /\ upd.called
    /\ upd.before.status = "maintenance"
    /\ upd.after.status = "maintenance"
    /\ upd.after.total_swaps_today = upd.before.total_swaps_today + 1
    /\ upd.after.last_swap_time = IsoNowZ(upd.now)

\* C32: while the driver keeps ticking and the draws are fair, a station in
\* maintenance is later operational, and a station with no available
\* battery and some charging later has one available at the end of a tick.
C32_EventuallyRecovers ==
    /\ (sim.status = "maintenance") ~> (sim.status = "operational")
    /\ (sim.battery_available = 0 /\ sim.battery_charging > 0)
          ~> (sim.battery_available > 0)

\* After some ticks a station is in maintenance with every battery charging.
C32_Witness ==
    /\ simNow > 0
    /\ sim.status = "maintenance"
    /\ sim.battery_available = 0
    /\ sim.battery_charging > 0
    /\ sim.total_swaps_today >= 8

\* ------------------------------------------------------------------ claims: driver

\* The update() calls station i has had when run() stands at (pc, idx) in
\* its ticks-th for loop and no station was skipped.
ExpectedUpdates(i) ==
    IF \/ (drv.pc \in {"update", "publish"} /\ i > drv.idx)
       \/ (drv.pc = "update" /\ i = drv.idx)
    THEN drv.ticks - 1 ELSE drv.ticks

\* Likewise the publish attempts.
ExpectedAttempts(i) ==
    IF drv.pc \in {"update", "publish"} /\ i >= drv.idx
    THEN drv.ticks - 1 ELSE drv.ticks

\* C12: a publish failure does not stop the driver: while no cancellation
\* has arrived, a driver that has met a publish failure is still inside its
\* loop, and every station has had exactly the updates and publish attempts
\* of a driver that met none, the stations after the failed one in the same
\* tick and all stations in later ticks included.
C12_PublishFailureDoesNotStop ==
    (drv.pc # "none" /\ drv.failed # {} /\ ~drv.cancelled) =>
        /\ drv.pc \in {"loop", "update", "publish", "sleep"}
        /\ \A i \in DOMAIN drv.stations :
            /\ drv.updates[i] = ExpectedUpdates(i)
            /\ drv.attempts[i] = ExpectedAttempts(i)

\* Station 1's publish failed in the first tick (its only attempt so far);
\* station 2 was still published in that tick, and the second tick has
\* updated station 1 again and is about to publish it.
C12_Witness ==
    /\ drv.pc = "publish"
    /\ drv.idx = 1
    /\ drv.ticks = 2
    /\ drv.failed = {1}
    /\ drv.attempts = <<1, 1>>
    /\ drv.updates = <<2, 1>>
    /\ ~drv.cancelled

\* C13 (as claimed): a driver stopped by a cancellation that arrived while a
\* tick was in progress has updated and published every station in that
\* tick.
C13_CancelledTickCompletes ==
    (/\ drv.pc = "returned"
     /\ drv.cancelled
     /\ drv.cancelledAt.pc \in {"update", "publish"}) =>
        \A i \in DOMAIN drv.stations :
            /\ drv.updates[i] = drv.ticks
            /\ drv.attempts[i] = drv.ticks

\* A cancellation has arrived at a driver whose connection was established.
CancelledConnected ==
    drv.pc # "none" /\ drv.cancelled /\ drv.cancelledAt.connected

\* C14: after the cancellation of a connected driver no new tick starts;
\* once disconnect() has been called there is no further update, publish or
\* disconnect; and run() eventually returns with disconnect() called exactly
\* once.
C14_OrderlyShutdown ==
    /\ [](CancelledConnected => drv.ticks = drv.cancelledAt.ticks)
    /\ [][(drv.pc # "none" /\ drv.disconnects >= 1) =>
             /\ drv'.updates = drv.updates
             /\ drv'.attempts = drv.attempts
             /\ drv'.disconnects = drv.disconnects]_vars
    /\ [](CancelledConnected /\ drv.pc = "returned" => drv.disconnects = 1)
    /\ (CancelledConnected ~> (drv.pc = "returned" /\ drv.disconnects = 1))

\* The cancellation arrived in the middle of the second tick; run() has
\* returned and the connection is disconnected.
C14_Witness ==
    /\ CancelledConnected
    /\ drv.cancelledAt.pc = "publish"
    /\ drv.cancelledAt.ticks = 2
    /\ drv.pc = "returned"
    /\ drv.mqtt_connection = "disconnected"

Microseconds == {0, 123456}

\* json.loads of a published payload, its timestamp being the text
\* datetime.utcnow().isoformat() + "Z" for a clock reading `micro`
\* microseconds into its second.
PublishedRecord(sent, micro) ==
    [k \in DOMAIN sent.payload |->
        IF "time" \in DOMAIN sent.payload[k]
        THEN StrV(isoformat(UtcNow(sent.payload[k].time, micro)) \o <<"Z">>)
        ELSE JsonLoads([f \in {k} |-> sent.payload[f]])[k]]

\* C28: every record the driver publishes is accepted by
\* validate_telemetry: its station_id is a non-empty string, its
\* battery_available a non-negative int, and its timestamp text is parsed
\* by the validator, to the second and microsecond the clock showed.
C28_PublishedIsValid ==
    (drv.pc # "none" /\ drv.sent # NoPublish) =>
        \A micro \in Microseconds :
            \A r \in {PublishedRecord(drv.sent, micro)} :
                /\ validate_telemetry(r).ok
                /\ IsStr(r.station_id)
                /\ Strip(r.station_id.s) # <<>>
                /\ r.battery_available.t = "int"
                /\ r.battery_available.i >= 0
                /\ \A p \in {ParseTimestamp(r.timestamp)} :
                      /\ p.raised = "none"
                      /\ p.dt.second
                            = UtcNow(drv.sent.payload.timestamp.time, micro).second
                      /\ p.dt.microsecond = micro

\* Station 2's record of the second tick, after a swap, has been published.
C28_Witness ==
    /\ drv.pc # "none"
    /\ drv.sent # NoPublish
    /\ drv.sent.topic = Topic(StationId(2))
    /\ drv.ticks = 2
    /\ drv.sent.payload.total_swaps_today.int >= 1
    /\ drv.sent.payload.timestamp.time >= 4

\* C26: nothing is retried.  An invocation of the ingestion handler on a
\* valid record makes at most one put_item call and at most one put_object
\* call, whatever the stores answer; the driver never has more publish
\* attempts for a station than ticks, every publish step is one attempt for
\* one station, and each published payload carries a later timestamp than
\* the one published before it, so no earlier payload is sent again.
C26_NothingRetried ==
    /\ [](LastValid => /\ Len(CallsTo("put_item")) <= 1
                       /\ Len(CallsTo("put_object")) <= 1)
    /\ [](drv.pc # "none" =>
             \A i \in DOMAIN drv.stations : drv.attempts[i] <= drv.ticks)
    /\ [][(drv.pc # "none" /\ drv'.attempts # drv.attempts) =>
             /\ \E i \in DOMAIN drv.stations :
                   drv'.attempts = [drv.attempts EXCEPT ![i] = @ + 1]
             /\ drv'.sent # NoPublish
             /\ drv.sent # NoPublish =>
                   drv'.sent.payload.timestamp.time > drv.sent.payload.timestamp.time]_vars

\* Station 1's publish failed in the first tick; in the second tick its one
\* attempt has been made, with the record of the second tick.
C26_Witness ==
    /\ drv.pc # "none"
    /\ 1 \in drv.failed
    /\ drv.ticks = 2
    /\ drv.attempts[1] = 2
    /\ drv.sent.topic = Topic(StationId(1))
    /\ drv.sent.payload.timestamp.time = 3

\* The ingestion side of C26: a valid record met both stores refusing, and
\* each store was called once.
C26_IngestWitness ==
    /\ LastValid
    /\ ~last.dynUp
    /\ ~last.s3Up
    /\ Len(CallsTo("put_item")) = 1
    /\ Len(CallsTo("put_object")) = 1

\* ------------------------------------------------------------------ claims: query service

\* The latest invocation is one of the query handler that went past the
\* handler's entry and returned a response.
QueryReturned == qry.inv.handler = "query" /\ ~qry.inv.raised

\* Its method and path as the handler reads them.
QueryMethod ==
    IF "httpMethod" \in DOMAIN qry.inv.event
    THEN qry.inv.event.httpMethod.s ELSE <<>>

QueryPath ==
    IF "path" \in DOMAIN qry.inv.event THEN qry.inv.event.path.s ELSE <<>>

\* The row of the table as a response shows it.
ShownRow(item) == JsonDumps(decimal_to_float(Deserialize(item)))

\* The latest invocation is GET /stations, returned.
ListRequest ==
    QueryReturned /\ QueryMethod = GET /\ QueryPath = StationsPath

\* C15: listStations asks for page after page with the previous page's
\* LastEvaluatedKey until a page carries none, and returns their items
\* together: with the store answering, the response is 200, every row of
\* the table is in it exactly once, count is the number of rows, and the
\* scan calls made are those of the pages.
C15_ListIsEveryRow ==
    (ListRequest /\ qry.inv.env.failAt = 0) =>
        LET body == qry.inv.response.body
            rows == Cardinality(DOMAIN table)
        IN /\ qry.inv.response.statusCode = 200
           /\ body.count = rows
           /\ Len(body.stations) = rows
           /\ \A k \in DOMAIN table :
                 Cardinality({i \in DOMAIN body.stations :
                                 body.stations[i] = ShownRow(table[k])}) = 1
           /\ Len(qry.inv.calls) = (rows \div qry.inv.env.limit) + 1

\* Three rows read in pages of one: three full pages and the empty page
\* that carries no LastEvaluatedKey.
C15_Witness ==
    /\ ListRequest
    /\ qry.inv.response.statusCode = 200
    /\ Cardinality(DOMAIN table) = 3
    /\ qry.inv.env.limit = 1
    /\ Len(qry.inv.calls) = 4

\* The latest invocation is a returned GET on a path under /stations/.
SingleRequest ==
    /\ QueryReturned
    /\ QueryMethod = GET
    /\ QueryPath # StationsPath
    /\ StartsWith(QueryPath, StationsPath \o <<"/">>)

\* ... that carries a station id.
SingleWithId ==
    /\ SingleRequest
    /\ "pathParameters" \in DOMAIN qry.inv.event
    /\ qry.inv.event.pathParameters # NullV
    /\ "station_id" \in DOMAIN qry.inv.event.pathParameters.d
    /\ ~Falsy(qry.inv.event.pathParameters.d.station_id)

QueryId == qry.inv.event.pathParameters.d.station_id.s

\* C16: getStation on an id without a row is answered 404 with error 'Not
\* found' and message 'Station <id> not found'; a store failure is answered
\* 500; an id with a row is answered 200 with that row.
C16_NotFoundIsNotError ==
    SingleWithId =>
        IF qry.inv.env.failAt = 1
        THEN qry.inv.response.statusCode = 500
        ELSE IF QueryId \notin DOMAIN table
        THEN /\ qry.inv.response.statusCode = 404
             /\ qry.inv.response.body =
                    [error |-> "Not found",
                     message |-> <<"Station ", QueryId, " not found">>]
        ELSE /\ qry.inv.response.statusCode = 200
             /\ qry.inv.response.body = [station |-> ShownRow(table[QueryId])]

\* The store fails on the lookup of a station that has a row.
C16_Witness ==
    /\ SingleWithId
    /\ QueryId \in DOMAIN table
    /\ qry.inv.env.failAt = 1
    /\ qry.inv.response.statusCode = 500

\* C17 (as claimed): a GET under /stations/ whose path parameters are
\* absent, null, an empty map, or hold an empty station_id is answered 400
\* and makes no store call.
C17_MissingIdIs400 ==
    (SingleRequest /\ ~SingleWithId) =>
        /\ qry.inv.response.statusCode = 400
        /\ qry.inv.calls = <<>>

C19_RoutingTotal ==
    QueryReturned =>
        LET response == qry.inv.response
            env == qry.inv.env
        IN IF QueryMethod = OPTIONS
           THEN /\ response.statusCode = 200
                /\ response = handle_options(qry.inv.event).response
           ELSE IF QueryMethod # GET
           THEN response.statusCode = 405
           ELSE IF QueryPath = StationsPath
           THEN response =
                    handle_get_stations(qry.inv.event, table, env.limit,
                                        env.failAt).response
           ELSE IF StartsWith(QueryPath, StationsPath \o <<"/">>)
           THEN response =
                    handle_get_station_by_id(qry.inv.event, table,
                                             env.failAt).response
           ELSE response.statusCode = 404

\* GET /stationsX, which starts with /stations but not with /stations/, is
\* answered 404.
C19_Witness ==
    /\ QueryReturned
    /\ QueryMethod = GET
    /\ QueryPath = StationsPath \o <<"X">>
    /\ qry.inv.response.statusCode = 404

\* C20 (as claimed): every invocation of either handler returns a response;
\* none ends by raising.
C20_NothingEscapes ==
    qry.inv.handler # "none" => ~qry.inv.raised

\* ------------------------------------------------------------------ claims: concurrency

\* Invocation p's upsert has taken effect, and the item it wrote.
HasWritten(p) ==
    /\ con.ing[p].pc \in {"archive", "done"}
    /\ "dynamodb_success" \in DOMAIN con.ing[p]
    /\ con.ing[p].dynamodb_success
WrittenBy(p) == DataToStore(con.ing[p].event, p)

\* C25: with ingestion and query invocations interleaved at the store
\* calls, every row of the table is, whole, the item one invocation's
\* put_item wrote, and every row a query returns (one get_item, or the pages
\* of a scan read while writes go on) is, whole, the conversion of such an
\* item; so the row of a station written by two invocations is one of their
\* two records.
C25_RowsAreWhole ==
    con.rd.pc # "none" =>
        /\ \A k \in DOMAIN table :
              \E p \in Writers : HasWritten(p) /\ table[k] = WrittenBy(p)
        /\ con.rd.pc = "done" =>
              \A i \in DOMAIN con.rd.rows :
                  \E p \in Writers :
                      /\ HasWritten(p)
                      /\ con.rd.rows[i] = decimal_to_float(Deserialize(WrittenBy(p)))

\* Both invocations wrote different records of station s1; the query
\* returned the first one's row, which the second has replaced since.
C25_Witness ==
    /\ con.rd.pc = "done"
    /\ HasWritten(1)
    /\ HasWritten(2)
    /\ con.ing[1].event.station_id = StrV(S1)
    /\ con.ing[2].event.station_id = StrV(S1)
    /\ con.ing[1].event.timestamp # con.ing[2].event.timestamp
    /\ con.rd.rows = <<decimal_to_float(Deserialize(WrittenBy(1)))>>
    /\ table[S1] = WrittenBy(2)

====
